---- MODULE Spec2Model ----
(***************************************************************************)
(* A model of the tool-invocation protocol of agent.py: the protocol       *)
(* parser (_parse_response), the operation registry built by               *)
(* _Executor.__init__, the argument binder (_extract_kwargs_for), the      *)
(* invocation ladder (_call_tool) and the bounded control loop             *)
(* (_Executor.run / _Executor._one_turn).                                  *)
(*                                                                         *)
(* Python strings produced by the model (the LLM) are sequences of tokens; *)
(* a token is a piece of text that the parser's substring tests, splits    *)
(* and regular expressions treat as a unit.  Python values decoded from    *)
(* JSON are tagged records (JNull, JStr, JDict, JList).  Strings built by  *)
(* the executor (f-strings) are records holding the interpolated parts.    *)
(***************************************************************************)
EXTENDS Integers, Sequences, FiniteSets, TLC

VARIABLES
    pc,              \* "new" (not constructed), "idle", "loop" (inside run's for loop), "done", "parse", "parsed"
    tools,           \* _Executor.tools: the tool objects given to the constructor
    tool_index,      \* _Executor._tool_index: insertion-ordered dict, a sequence of [name, fn]
    max_steps,       \* _Executor.max_steps
    transcript,      \* _Executor.transcript
    last_raw_output, \* _Executor.last_raw_output
    step,            \* number of iterations of run's for loop executed in the current run
    result,          \* value returned by the last run
    runs,            \* history: number of calls of run on this executor
    run_start,       \* history: index in transcript of the current run's user turn
    llm_calls,       \* history: model invocations in the current run
    tool_entries,    \* history: times the body of an operation was entered in the current run
    all_unknown,     \* history: every step of the current run parsed to a ToolCall with an unregistered name
    final_seen,      \* history: a step of the current run parsed to a FinalAnswer
    kinds,           \* history: the kind of each step of the current run, in order
    last,            \* history: summary of the last executed step
    pText,           \* parser specification: the input string
    pResult,         \* parser specification: what _parse_response did with it
    bFn,             \* binder and ladder specifications: the callable fn
    bInput,          \* binder and ladder specifications: the argument tool_input
    bBeh,            \* ladder specification: what the body of fn does for each call shape
    bResult,         \* binder and ladder specifications: what the function under study returned or raised
    bTried,          \* ladder specification, history: the calls fn(...) evaluated, in order
    last_prompt,     \* history: the tool list of the prompt built by the last step
    last_response,   \* history: what the model call of the last step returned or raised
    ready,           \* PlaywrightBrowserTools._ready
    snapshots,       \* PlaywrightBrowserTools._snapshots
    action_log,      \* PlaywrightBrowserTools.action_log
    files,           \* the files on disk: path -> what was written to it, None when absent
    tcall,           \* history: the last call of a tool of the browser session and its outcome
    thist,           \* history: the setup calls and snapshots of the browser session
    plan_md          \* run_planner_agent: the plan body its post-processing chose, and from where

toolVars == <<ready, snapshots, action_log, files, tcall, thist>>

vars == <<pc, tools, tool_index, max_steps, transcript, last_raw_output, step, result,
          runs, run_start, llm_calls, tool_entries, all_unknown, final_seen, kinds,
          last, pText, pResult, bFn, bInput, bBeh, bResult, bTried, last_prompt, last_response, toolVars, plan_md>>

(***************************************************************************)
(* Bounds of the model.                                                    *)
(***************************************************************************)
\* max_steps is drawn from 0..MaxSteps
MaxSteps == 2
\* a run starts only while its turns fit in MaxTurns transcript entries
MaxTurns == 4
\* the registry specification registers at most MaxTools tools
MaxTools == 3
\* the parser specification reads strings of at most MaxLen tokens
MaxLen == 4
\* the forms specification reads outputs of at most MaxParts forms
MaxParts == 3
\* the binder and ladder specifications read mappings of at most MaxEntries entries
MaxEntries == 2

(***************************************************************************)
(* Python values.                                                          *)
(***************************************************************************)
None == [k |-> "None"]

\* browser_tools.py lines 14-24: a new PlaywrightBrowserTools, nothing written, and the
\* history of a session in which no setup call was made
PlanPath == "specs/plan.md"
TestPath == "tests/test_a.py"
NotePath == "notes.md"
Paths == {PlanPath, TestPath, NotePath}

NoSetup == [succeeded |-> FALSE, snapshots |-> 0, entry |-> None]
NewBrowserTools ==
    /\ ready = FALSE
    /\ snapshots = 0
    /\ action_log = <<>>
    /\ files = [path \in Paths |-> None]
    /\ tcall = None
    /\ thist = NoSetup
JNull == [t |-> "null"]
JStr(s) == [t |-> "str", s |-> s]
JDict(f) == [t |-> "dict", d |-> f]
JList(n) == [t |-> "list", n |-> n]
JNum(n) == [t |-> "num", n |-> n]
JBool(b) == [t |-> "bool", b |-> b]
EmptyMap == [key \in {} |-> JNull]

IsDict(v) == v.t = "dict"
IsStr(v) == v.t = "str"
HasKey(v, key) == IsDict(v) /\ key \in DOMAIN v.d
\* dict.get(key): None when the key is absent
Get(v, key) == IF key \in DOMAIN v.d THEN v.d[key] ELSE JNull
\* Python truthiness of a decoded JSON value
Truthy(v) ==
    CASE v.t = "null" -> FALSE
      [] v.t = "str" -> v.s # ""
      [] v.t = "dict" -> DOMAIN v.d # {}
      [] v.t = "list" -> v.n > 0
      [] v.t = "num" -> v.n # 0
      [] v.t = "bool" -> v.b
\* hashable values can be tested for membership in a dict; lists and dicts cannot
Hashable(v) == v.t \in {"null", "str", "num", "bool"}
\* isinstance(v, (str, int, float, bool)) or v is None
IsScalar(v) == v.t \in {"str", "num", "bool", "null"}

\* Strings the executor builds.  Text(<<>>) is the empty string, the only falsy one.
Text(toks) == [k |-> "text", body |-> toks]
IsEmptyStr(s) == s = Text(<<>>)

(***************************************************************************)
(* Tokens of the model output.                                             *)
(***************************************************************************)
TO == "<tool_call>"
TC == "</tool_call>"
FO == "<final_answer>"
FC == "</final_answer>"
SO == "<tool_call"
SE == "/>"
WS == " "
\* attributes of the permissive tag; the regular expressions need no space before them
NameSnap == "name=\"browser_snapshot\""
NameNope == "name=\"extract_links\""
InUrl == "input_string=\"{&quot;url&quot;: &quot;u&quot;}\""
InRaw == "input_string=\"u\""
JSnap == "{\"tool\": \"browser_snapshot\", \"input\": {}}"
JNav == "{\"tool\": \"browser_navigate\", \"input\": {\"url\": \"u\"}}"
JNavCase == "{\"tool\": \"Browser_Navigate\", \"input\": {\"url\": \"u\"}}"
JNavTwo == "{\"tool\": \"browser_navigate_2\", \"input\": {\"url\": \"u\"}}"
JNope == "{\"tool\": \"extract_links\", \"input\": \"u\"}"
JNoTool == "{\"input\": {\"url\": \"u\"}}"
JListTool == "{\"tool\": [\"browser_snapshot\"], \"input\": {}}"
JUrl == "{\"url\": \"u\"}"
JClickCss == "{\"tool\": \"browser_click\", \"input\": {\"css\": \"u\"}}"
JClickSel == "{\"tool\": \"browser_click\", \"input\": {\"selector\": \"u\"}}"
JNavHref == "{\"tool\": \"browser_navigate\", \"input\": {\"href\": \"u\"}}"
JBackNone == "{\"tool\": \"browser_navigate_back\"}"
JBackNull == "{\"tool\": \"browser_navigate_back\", \"input\": null}"
JBackStr == "{\"tool\": \"browser_navigate_back\", \"input\": \"u\"}"
JBackNum == "{\"tool\": \"browser_navigate_back\", \"input\": 5}"
JBackMap == "{\"tool\": \"browser_navigate_back\", \"input\": {\"url\": \"u\"}}"
JBackEmpty == "{\"tool\": \"browser_navigate_back\", \"input\": {}}"
JBackList == "{\"tool\": \"browser_navigate_back\", \"input\": [1]}"
JBackArgs == "{\"tool\": \"browser_navigate_back\", \"input\": {\"args\": [1]}}"
JSetup == "{\"tool\": \"planner_setup_page\", \"input\": {}}"
JSetupWrapped == "{\"tool\": \"wrapped__planner_setup_page\", \"input\": {}}"
JWrite == "{\"tool\": \"wrapped__planner_write_markdown\", \"input\": {\"file_path\": \"p.md\", \"content\": \"# Plan\"}}"
JWriteEmpty == "{\"tool\": \"wrapped__planner_write_markdown\", \"input\": {\"file_path\": \"p.md\", \"content\": \"\"}}"
BeginPlan == "<<<BEGIN_PLAN_MD>>>"
EndPlan == "<<<END_PLAN_MD>>>"
Heading == "# Plan"
JArr == "[1]"
JBad == "{bad"
Word == "hello"

\* tokens that hold the character '>'
HasGt(tok) == tok \in {TO, TC, FO, FC, SE}
\* "<tool_call" in tok
HasToolCallOpen(tok) == tok \in {TO, SO}

UrlArg == JDict([key \in {"url"} |-> JStr("u")])
\* the decoded value of {"tool": name, "input": input}
ToolPayload(name, input) ==
    JDict([key \in {"tool", "input"} |-> IF key = "tool" THEN JStr(name) ELSE input])

\* json.loads on one token: the decoded value of the valid JSON texts
JsonValue(tok) ==
    CASE tok = JSnap -> JDict([key \in {"tool", "input"} |->
                                IF key = "tool" THEN JStr("browser_snapshot") ELSE JDict(EmptyMap)])
      [] tok = JNav -> JDict([key \in {"tool", "input"} |->
                                IF key = "tool" THEN JStr("browser_navigate") ELSE UrlArg])
      [] tok = JNavCase -> JDict([key \in {"tool", "input"} |->
                                IF key = "tool" THEN JStr("Browser_Navigate") ELSE UrlArg])
      [] tok = JNavTwo -> JDict([key \in {"tool", "input"} |->
                                IF key = "tool" THEN JStr("browser_navigate_2") ELSE UrlArg])
      [] tok = JNope -> JDict([key \in {"tool", "input"} |->
                                IF key = "tool" THEN JStr("extract_links") ELSE JStr("u")])
      [] tok = JNoTool -> JDict([key \in {"input"} |-> UrlArg])
      [] tok = JListTool -> JDict([key \in {"tool", "input"} |->
                                IF key = "tool" THEN JList(1) ELSE JDict(EmptyMap)])
      [] tok = JUrl -> UrlArg
      [] tok = JClickCss -> ToolPayload("browser_click", JDict([key \in {"css"} |-> JStr("u")]))
      [] tok = JClickSel ->
            ToolPayload("browser_click", JDict([key \in {"selector"} |-> JStr("u")]))
      [] tok = JNavHref ->
            ToolPayload("browser_navigate", JDict([key \in {"href"} |-> JStr("u")]))
      [] tok = JBackNone -> JDict([key \in {"tool"} |-> JStr("browser_navigate_back")])
      [] tok = JBackNull -> ToolPayload("browser_navigate_back", JNull)
      [] tok = JBackStr -> ToolPayload("browser_navigate_back", JStr("u"))
      [] tok = JBackNum -> ToolPayload("browser_navigate_back", JNum(5))
      [] tok = JBackMap -> ToolPayload("browser_navigate_back", UrlArg)
      [] tok = JBackEmpty -> ToolPayload("browser_navigate_back", JDict(EmptyMap))
      [] tok = JBackList -> ToolPayload("browser_navigate_back", JList(1))
      [] tok = JBackArgs ->
            ToolPayload("browser_navigate_back", JDict([key \in {"args"} |-> JList(1)]))
      [] tok = JSetup -> ToolPayload("planner_setup_page", JDict(EmptyMap))
      [] tok = JSetupWrapped -> ToolPayload("wrapped__planner_setup_page", JDict(EmptyMap))
      [] tok = JWrite ->
            ToolPayload("wrapped__planner_write_markdown",
                        JDict([key \in {"file_path", "content"} |->
                                 IF key = "file_path" THEN JStr("p.md") ELSE JStr(Heading)]))
      [] tok = JWriteEmpty ->
            ToolPayload("wrapped__planner_write_markdown",
                        JDict([key \in {"file_path", "content"} |->
                                 IF key = "file_path" THEN JStr("p.md") ELSE JStr("")]))
      [] tok = JArr -> JList(1)
ValidJson == {JSnap, JNav, JNavTwo, JNavCase, JNope, JNoTool, JListTool, JUrl, JArr,
              JClickCss, JClickSel, JNavHref, JBackNone, JBackNull, JBackStr, JBackNum,
              JBackMap, JBackEmpty, JBackList, JBackArgs, JSetup, JSetupWrapped,
              JWrite, JWriteEmpty}

\* json.loads(s): succeeds on a string that is one valid JSON text, raises otherwise
JsonLoads(toks) ==
    IF Len(toks) = 1 /\ toks[1] \in ValidJson
    THEN [ok |-> TRUE, v |-> JsonValue(toks[1])]
    ELSE [ok |-> FALSE, e |-> "JSONDecodeError"]

\* str.strip(): drops leading and trailing whitespace
RECURSIVE LStrip(_)
LStrip(toks) == IF toks # <<>> /\ Head(toks) = WS THEN LStrip(Tail(toks)) ELSE toks
RECURSIVE RStrip(_)
RStrip(toks) ==
    IF toks # <<>> /\ toks[Len(toks)] = WS THEN RStrip(SubSeq(toks, 1, Len(toks) - 1)) ELSE toks
Strip(toks) == RStrip(LStrip(toks))

Contains(toks, tok) == \E i \in 1..Len(toks) : toks[i] = tok
FirstIndex(toks, tok) == CHOOSE i \in 1..Len(toks) :
    toks[i] = tok /\ \A j \in 1..(i - 1) : toks[j] # tok
\* s.split(sep, 1)[1]: what follows the first sep (s is known to contain sep)
AfterFirst(toks, tok) == SubSeq(toks, FirstIndex(toks, tok) + 1, Len(toks))
\* s.split(sep, 1)[0]: what precedes the first sep, the whole of s when there is none
BeforeFirst(toks, tok) ==
    IF Contains(toks, tok) THEN SubSeq(toks, 1, FirstIndex(toks, tok) - 1) ELSE toks

(***************************************************************************)
(* Protocol parser: _parse_response.                                       *)
(***************************************************************************)
NameAttrs == {NameSnap, NameNope}
InputAttrs == {InUrl, InRaw}
\* the text between the quotes of an attribute, the group the regular expression captures
AttrValue(tok) ==
    CASE tok = NameSnap -> "browser_snapshot"
      [] tok = NameNope -> "extract_links"
      [] tok = InUrl -> "{&quot;url&quot;: &quot;u&quot;}"
      [] tok = InRaw -> "u"
\* html.unescape: &quot; becomes a double quote
HtmlUnescape(s) == IF s = "{&quot;url&quot;: &quot;u&quot;}" THEN JUrl ELSE s

\* re.search(r'<tool_call[^>]*ATTR="([^"]+)"', text): positions <<i, j>> of a "<tool_call"
\* and of an attribute after it with no '>' in between
AttrMatches(toks, attrs) ==
    {m \in (1..Len(toks)) \X (1..Len(toks)) :
        /\ toks[m[1]] = SO
        /\ m[1] < m[2]
        /\ toks[m[2]] \in attrs
        /\ \A n \in (m[1] + 1)..(m[2] - 1) : ~HasGt(toks[n])}
\* the match re.search returns: leftmost start, and [^>]* is greedy, so the last attribute
AttrMatch(toks, attrs) ==
    CHOOSE m \in AttrMatches(toks, attrs) :
        \A o \in AttrMatches(toks, attrs) :
            m[1] < o[1] \/ (m[1] = o[1] /\ m[2] >= o[2])
AttrGroup(toks, attrs) == AttrValue(toks[AttrMatch(toks, attrs)[2]])

\* lines 529-530 without the handler: json.loads(block), then payload.get(...), which
\* raises AttributeError when the payload is not a dict
StrictPayload(block) ==
    LET dec == JsonLoads(block) IN
    IF ~dec.ok THEN [type |-> "raise", e |-> dec.e]
    ELSE IF ~IsDict(dec.v) THEN [type |-> "raise", e |-> "AttributeError"]
    ELSE [type |-> "tool_call", tool |-> Get(dec.v, "tool"), input |-> Get(dec.v, "input")]

\* ParseStrict without the except clause of line 531
ParseStrictUnguarded(text) == StrictPayload(Strip(BeforeFirst(AfterFirst(text, TO), TC)))

\* ParseStrict reporting only the block it failed to decode instead of the whole text
ParseStrictReportsBlock(text) ==
    LET block == Strip(BeforeFirst(AfterFirst(text, TO), TC))
        got == StrictPayload(block)
    IN  IF got.type = "raise"
        THEN [type |-> "final", output |-> [k |-> "parser_error", e |-> got.e, raw |-> block]]
        ELSE got

\* line 532: the characters of f"[parser error: {e}] RAW: {text}"
ParserErrorText(output) ==
    <<"[parser error: " \o output.e \o "]", WS, "RAW:", WS>> \o output.raw

\* lines 527-532: the strict block, with the handler that turns any exception into a final
ParseStrict(text) ==
    LET block == Strip(BeforeFirst(AfterFirst(text, TO), TC))
        got == StrictPayload(block)
    IN  IF got.type = "raise"
        THEN [type |-> "final", output |-> [k |-> "parser_error", e |-> got.e, raw |-> text]]
        ELSE got

\* PermissiveInput without the fallback of lines 545-546: an undecodable payload is dropped
PermissiveInputDropsRaw(text) ==
    LET raw == IF AttrMatches(text, InputAttrs) # {}
               THEN HtmlUnescape(AttrGroup(text, InputAttrs))
               ELSE ""
        dec == JsonLoads(IF raw = "" THEN <<>> ELSE <<raw>>)
    IN  IF dec.ok THEN dec.v ELSE JNull

\* lines 542-547: the input payload of the permissive form
PermissiveInput(text) ==
    LET raw == IF AttrMatches(text, InputAttrs) # {}
               THEN HtmlUnescape(AttrGroup(text, InputAttrs))
               ELSE ""
        dec == JsonLoads(IF raw = "" THEN <<>> ELSE <<raw>>)
    IN  IF dec.ok THEN dec.v ELSE JStr(raw)

\* ParseFinal taking the opening sentinel alone for a final-answer block
ParseFinalOpenOnly(text) ==
    IF Contains(text, FO)
    THEN [type |-> "final", output |-> Text(Strip(BeforeFirst(AfterFirst(text, FO), FC)))]
    ELSE [type |-> "final", output |-> Text(text)]

\* lines 551-555: the final-answer block, else the whole text
ParseFinal(text) ==
    IF Contains(text, FO) /\ Contains(text, FC)
    THEN [type |-> "final", output |-> Text(Strip(BeforeFirst(AfterFirst(text, FO), FC)))]
    ELSE [type |-> "final", output |-> Text(text)]

\* lines 535-549: the permissive self-closing tag; without a name attribute it falls through
ParsePermissive(text) ==
    IF AttrMatches(text, NameAttrs) # {}
    THEN [type |-> "tool_call", tool |-> JStr(AttrGroup(text, NameAttrs)),
          input |-> PermissiveInput(text)]
    ELSE ParseFinal(text)

\* ParseResponse trying the final-answer block before the two tool-call forms
ParseResponseFinalFirst(raw_text) ==
    LET text == Strip(raw_text) IN
    IF Contains(text, FO) /\ Contains(text, FC) THEN ParseFinal(text)
    ELSE IF Contains(text, TO) /\ Contains(text, TC) THEN ParseStrict(text)
    ELSE IF (\E i \in 1..Len(text) : HasToolCallOpen(text[i])) /\ Contains(text, SE)
    THEN ParsePermissive(text)
    ELSE ParseFinal(text)

\* lines 521-555
ParseResponse(raw_text) ==
    LET text == Strip(raw_text) IN
    IF Contains(text, TO) /\ Contains(text, TC) THEN ParseStrict(text)
    ELSE IF (\E i \in 1..Len(text) : HasToolCallOpen(text[i])) /\ Contains(text, SE)
    THEN ParsePermissive(text)
    ELSE ParseFinal(text)

(***************************************************************************)
(* Tool objects and the operation registry: _normalize_tool and the index  *)
(* built by _Executor.__init__.                                            *)
(***************************************************************************)
\* the value of an attribute the object does not have (getattr's default None)
NoAttr == "<none>"
AttrTruthy(a) == a # NoAttr /\ a # ""
\* a or b
Or(a, b) == IF AttrTruthy(a) THEN a ELSE b

\* A tool object: its attributes name, tool_name, __name__, __qualname__, the name of
\* its class, and the parameter list of its entry point (the first required of them
\* have no default; star: it also takes *args and **kwargs).
ToolObject(id, name, dunder, params, required) ==
    [id |-> id, name |-> name, tool_name |-> NoAttr, dunder |-> dunder,
     qualname |-> dunder, cls |-> "function", params |-> params, required |-> required,
     star |-> FALSE]

\* lines 452-461: the natural name of a tool object
NaturalName(t) ==
    LET declared == Or(t.name, t.tool_name) IN
    IF declared # NoAttr THEN declared
    ELSE LET introspected == Or(t.dunder, t.qualname) IN
         IF AttrTruthy(introspected) THEN introspected ELSE t.cls

IndexNames(index) == {index[i].name : i \in 1..Len(index)}
InIndex(index, name) == name \in IndexNames(index)
\* self._tool_index[name]
IndexGet(index, name) == index[CHOOSE i \in 1..Len(index) : index[i].name = name].fn

\* lines 576-580: while name in self._tool_index: name = f"{base}_{i}"; i += 1
RECURSIVE FreeName(_, _, _, _)
FreeName(index, base, name, i) ==
    IF InIndex(index, name)
    THEN FreeName(index, base, base \o "_" \o ToString(i), i + 1)
    ELSE name

\* Register without the duplicate-name loop: a plain dict assignment, which replaces
\* the entry already stored under the natural name
RegisterOverwrite(index, t) ==
    IF InIndex(index, NaturalName(t))
    THEN [i \in 1..Len(index) |->
            IF index[i].name = NaturalName(t) THEN [name |-> NaturalName(t), fn |-> t]
            ELSE index[i]]
    ELSE Append(index, [name |-> NaturalName(t), fn |-> t])

\* lines 575-581: one iteration of the constructor's loop; the key is new, so the
\* assignment adds an entry at the end of the dict
Register(index, t) ==
    Append(index, [name |-> FreeName(index, NaturalName(t), NaturalName(t), 2), fn |-> t])

\* lines 573-581
RECURSIVE BuildIndex(_, _)
BuildIndex(index, ts) ==
    IF ts = <<>> THEN index ELSE BuildIndex(Register(index, Head(ts)), Tail(ts))

(***************************************************************************)
(* Argument binding: _PARAM_ALIASES and _extract_kwargs_for.               *)
(***************************************************************************)
\* _PARAM_ALIASES.get(pname, [pname])
ParamAliases(pname) ==
    CASE pname = "url" -> <<"url", "href", "target", "page">>
      [] pname = "selector" -> <<"selector", "css", "locator">>
      [] pname = "text" -> <<"text", "value", "query">>
      [] pname = "key" -> <<"key", "keys">>
      [] pname = "file_path" -> <<"file_path", "path", "dest">>
      [] pname = "javascript_code" -> <<"javascript_code", "expression", "code", "js", "script">>
      [] pname = "state" -> <<"state">>
      [] pname = "timeout" -> <<"timeout", "ms">>
      [] pname = "expected_value" -> <<"expected_value", "expected", "value">>
      [] pname = "input" -> <<"input">>
      [] OTHER -> <<pname>>

\* lines 61-62: list(inspect.signature(fn).parameters.values()); *args and **kwargs
\* are parameters of the signature too
SigParams(fn) == fn.params \o (IF fn.star THEN <<"args", "kwargs">> ELSE <<>>)

\* the pair (args, kwargs) the binder returns
ResolvedCall(args, kwargs) == [args |-> args, kwargs |-> kwargs]

\* lines 74-75: {**tool_input, **tool_input["input"]} when the value under "input" is a
\* dict; d is the mapping of the dict
MergeInput(d) ==
    IF "input" \in DOMAIN d /\ IsDict(d["input"])
    THEN [key \in DOMAIN d \cup DOMAIN d["input"].d |->
            IF key \in DOMAIN d["input"].d THEN d["input"].d[key] ELSE d[key]]
    ELSE d

\* BindParams reading remaining[a] instead of popping it: every parameter sees every key
BindParamsNoPop(params, d, remaining, kwargs) ==
    LET Hits(p) == {i \in 1..Len(ParamAliases(p)) : ParamAliases(p)[i] \in remaining}
        First(p) == ParamAliases(p)[CHOOSE i \in Hits(p) : \A j \in Hits(p) : i <= j]
        bound == {p \in {params[i] : i \in 1..Len(params)} :
                     Hits(p) # {} /\ d[First(p)] # JNull}
    IN  [p \in bound |-> d[First(p)]] @@ kwargs

\* lines 80-89: for each parameter the first alias that is a key of remaining is popped;
\* the parameter is bound unless the popped value is None
RECURSIVE BindParams(_, _, _, _)
BindParams(params, d, remaining, kwargs) ==
    IF params = <<>> THEN kwargs
    ELSE LET pname == Head(params)
             aliases == ParamAliases(pname)
             hits == {i \in 1..Len(aliases) : aliases[i] \in remaining}
         IN  IF hits = {} THEN BindParams(Tail(params), d, remaining, kwargs)
             ELSE LET a == aliases[CHOOSE i \in hits : \A j \in hits : i <= j]
                      found == d[a]
                  IN  BindParams(Tail(params), d, remaining \ {a},
                                 IF found # JNull THEN (pname :> found) @@ kwargs
                                 ELSE kwargs)

\* SingleFallback without lines 92-94
NoSingleFallback(params, d, kwargs) == ResolvedCall(<<>>, kwargs)

\* lines 91-96: a one-parameter function, nothing bound, a dict of one entry: its value
\* goes positionally
SingleFallback(params, d, kwargs) ==
    IF Len(params) = 1 /\ DOMAIN kwargs = {} /\ Cardinality(DOMAIN d) = 1
    THEN ResolvedCall(<<d[CHOOSE key \in DOMAIN d : TRUE]>>, EmptyMap)
    ELSE ResolvedCall(<<>>, kwargs)

\* BindScalar passing the value under the name of the first parameter
BindScalarByName(params, v) == ResolvedCall(<<>>, (Head(params) :> v))

\* lines 69-70
BindScalar(params, v) == ResolvedCall(<<v>>, EmptyMap)

\* lines 73-96; d is the mapping of the dict tool_input
BindMapping(params, d) ==
    SingleFallback(params, MergeInput(d), BindParams(params, MergeInput(d),
                                                     DOMAIN MergeInput(d), EmptyMap))

\* ExtractKwargsFor testing for a primitive before testing for no parameters
ExtractKwargsForScalarFirst(fn, tool_input) ==
    IF IsScalar(tool_input) THEN BindScalar(SigParams(fn), tool_input)
    ELSE IF SigParams(fn) = <<>> THEN ResolvedCall(<<>>, EmptyMap)
    ELSE IF IsDict(tool_input) THEN BindMapping(SigParams(fn), tool_input.d)
    ELSE ResolvedCall(<<tool_input>>, EmptyMap)

\* lines 55-99
ExtractKwargsFor(fn, tool_input) ==
    IF SigParams(fn) = <<>> THEN ResolvedCall(<<>>, EmptyMap)
    ELSE IF IsScalar(tool_input) THEN BindScalar(SigParams(fn), tool_input)
    ELSE IF IsDict(tool_input) THEN BindMapping(SigParams(fn), tool_input.d)
    ELSE ResolvedCall(<<tool_input>>, EmptyMap)

(***************************************************************************)
(* Per-operation input normalization:                                      *)
(* _normalize_tool_input_for_known_tools.                                  *)
(***************************************************************************)
\* a or b or ... : the first truthy value, else the last one
RECURSIVE OrChain(_)
OrChain(vs) == IF Len(vs) = 1 \/ Truthy(Head(vs)) THEN Head(vs) ELSE OrChain(Tail(vs))

NavigateTools == {"browser_navigate", "generator_setup_page", "planner_setup_page"}

\* NormalizeKnown leaving a raw string as it is
NormalizeKnownDictsOnly(tool_name, tool_input) ==
    LET ti == IF HasKey(tool_input, "input") /\ IsDict(tool_input.d["input"])
              THEN tool_input.d["input"] ELSE tool_input
        url == OrChain(<<Get(ti, "url"), Get(ti, "href"), Get(ti, "target"), Get(ti, "page")>>)
    IN  IF tool_name = "browser_snapshot" THEN JDict(EmptyMap)
        ELSE IF tool_name \in NavigateTools /\ IsDict(ti) /\ Truthy(url)
        THEN JDict([key \in {"url"} |-> url])
        ELSE ti

\* lines 101-128
NormalizeKnown(tool_name, tool_input) ==
    LET ti == IF HasKey(tool_input, "input") /\ IsDict(tool_input.d["input"])
              THEN tool_input.d["input"] ELSE tool_input
        url == OrChain(<<Get(ti, "url"), Get(ti, "href"), Get(ti, "target"), Get(ti, "page")>>)
        expr == OrChain(<<Get(ti, "javascript_code"), Get(ti, "expression"), Get(ti, "code"),
                          Get(ti, "js"), Get(ti, "script")>>)
    IN  IF tool_name = "browser_snapshot" THEN JDict(EmptyMap)
        ELSE IF tool_name \in NavigateTools /\ IsDict(ti) /\ Truthy(url)
        THEN JDict([key \in {"url"} |-> url])
        ELSE IF tool_name \in NavigateTools /\ IsStr(ti) THEN JDict([key \in {"url"} |-> ti])
        ELSE IF tool_name = "browser_evaluate" /\ IsDict(ti)
        THEN (IF expr # JNull THEN expr ELSE ti)
        ELSE ti

(***************************************************************************)
(* The invocation ladder: _call_tool.                                      *)
(***************************************************************************)
Shapes == {"kwargs", "positional", "noarg"}
\* what the body of the operation does when entered: return, raise TypeError, raise another exception
BodyOutcomes == {"ok", "TypeError", "Exception"}
\* a rung is reached only when the rungs before it raised TypeError, so the outcomes of
\* the rungs behind the first one that does not are immaterial and fixed to "ok"
Behaviours ==
    {b \in [Shapes -> BodyOutcomes] :
        /\ b["kwargs"] # "TypeError" => b["positional"] = "ok"
        /\ b["positional"] # "TypeError" => b["noarg"] = "ok"}
Calm == [shape \in Shapes |-> "ok"]

ParamSet(fn) == {fn.params[i] : i \in 1..Len(fn.params)}
\* Python's argument binding: does a call of this shape match the parameter list
Binds(fn, shape, arg) ==
    IF fn.star THEN TRUE
    ELSE CASE shape = "kwargs" ->
                /\ DOMAIN arg.d \subseteq ParamSet(fn)
                /\ \A i \in 1..fn.required : fn.params[i] \in DOMAIN arg.d
           [] shape = "positional" -> Len(fn.params) >= 1 /\ fn.required <= 1
           [] shape = "noarg" -> fn.required = 0

\* one call fn(...): a TypeError before the body is entered when the arguments do not
\* bind, else what the body does
Attempt(fn, shape, arg, outcome) ==
    IF ~Binds(fn, shape, arg)
    THEN [st |-> "raise", e |-> [type |-> "TypeError", msg |-> "arguments do not match"],
          entered |-> FALSE]
    ELSE IF outcome = "ok"
    THEN [st |-> "ok", value |-> [k |-> "result", of |-> fn.id], entered |-> TRUE]
    ELSE [st |-> "raise", e |-> [type |-> outcome, msg |-> "raised by the operation"],
          entered |-> TRUE]

\* lines 139-143: unwrap {"input": ...} or {"args": ...}; every decoded JSON value
\* passes the isinstance test
Unwrap(tool_input) ==
    IF HasKey(tool_input, "input") THEN tool_input.d["input"]
    ELSE IF HasKey(tool_input, "args") THEN tool_input.d["args"]
    ELSE tool_input

\* Rungs with the positional call of a dict before the keyword call
RungsPositionalFirst(ti) ==
    IF IsDict(ti) THEN <<"positional", "kwargs">> ELSE <<"positional">>

\* the guarded rungs of the ladder for an input
Rungs(ti) == IF IsDict(ti) THEN <<"kwargs", "positional">> ELSE <<"positional">>

\* a ladder that makes its first call only
ClimbFirstRungOnly(fn, ti, rungs, beh, entered) ==
    LET a == Attempt(fn, Head(rungs), ti, beh[Head(rungs)])
        seen == IF a.entered THEN Append(entered, Head(rungs)) ELSE entered
    IN  IF a.st = "ok" THEN [st |-> "ok", value |-> a.value, entered |-> seen]
        ELSE [st |-> "raise", e |-> a.e, entered |-> seen]

\* lines 146-165: each guarded rung swallows TypeError and passes to the next; the
\* last call fn() is unguarded.  entered lists the rungs that entered the body.
RECURSIVE Climb(_, _, _, _, _)
Climb(fn, ti, rungs, beh, entered) ==
    LET shape == IF rungs = <<>> THEN "noarg" ELSE Head(rungs)
        a == Attempt(fn, shape, ti, beh[shape])
        seen == IF a.entered THEN Append(entered, shape) ELSE entered
    IN  IF rungs # <<>> /\ a.st = "raise" /\ a.e.type = "TypeError"
        THEN Climb(fn, ti, Tail(rungs), beh, seen)
        ELSE IF a.st = "ok" THEN [st |-> "ok", value |-> a.value, entered |-> seen]
        ELSE [st |-> "raise", e |-> a.e, entered |-> seen]

\* CallArgs leaving the entries whose value is None out of the keyword call
CallArgsWithoutNone(shape, ti) ==
    CASE shape = "kwargs" ->
            [args |-> <<>>,
             kwargs |-> [key \in {k \in DOMAIN ti.d : ti.d[k] # JNull} |-> ti.d[key]]]
      [] shape = "positional" -> [args |-> <<ti>>, kwargs |-> EmptyMap]
      [] shape = "noarg" -> [args |-> <<>>, kwargs |-> EmptyMap]

\* the arguments of the call expressions of lines 148, 153, 160 and 165:
\* fn(**tool_input), fn(tool_input), fn()
CallArgs(shape, ti) ==
    CASE shape = "kwargs" -> [args |-> <<>>, kwargs |-> ti.d]
      [] shape = "positional" -> [args |-> <<ti>>, kwargs |-> EmptyMap]
      [] shape = "noarg" -> [args |-> <<>>, kwargs |-> EmptyMap]

\* lines 146-165: the calls evaluated, in order, whether or not they entered the body
RECURSIVE Tried(_, _, _, _)
Tried(fn, ti, rungs, beh) ==
    LET shape == IF rungs = <<>> THEN "noarg" ELSE Head(rungs)
        a == Attempt(fn, shape, ti, beh[shape])
        this == [shape |-> shape, call |-> CallArgs(shape, ti), entered |-> a.entered]
    IN  IF rungs # <<>> /\ a.st = "raise" /\ a.e.type = "TypeError"
        THEN <<this>> \o Tried(fn, ti, Tail(rungs), beh)
        ELSE <<this>>

\* lines 138-165: the calls _call_tool evaluates for an input
CallTrace(fn, tool_input, beh) ==
    Tried(fn, Unwrap(tool_input), Rungs(Unwrap(tool_input)), beh)

\* lines 130-165: the value _call_tool returns or the exception it raises
CallTool(fn, tool_input, beh) ==
    LET ti == Unwrap(tool_input) IN Climb(fn, ti, Rungs(ti), beh, <<>>)

(***************************************************************************)
(* The executor: _Executor._one_turn and _Executor.run.                    *)
(***************************************************************************)
\* lines 475-480, called with self.tools at lines 484 and 604: one line per tool
\* object, under the name _normalize_tool returns for it
RenderToolList(ts) == [i \in 1..Len(ts) |-> NaturalName(ts[i])]

SentinelText == "[no final answer produced within max steps]"
Sentinel == Text(<<SentinelText>>)

Turn(role, content) == [role |-> role, content |-> content]
Roles == {"user", "assistant", "observation"}

\* a transcript that keeps only its latest turn
AppendTurnReplacing(tr, turn) == <<turn>>

\* lines 587, 592, 597: self.transcript.append({"role": ..., "content": str(text)})
AppendTurn(tr, turn) == Append(tr, turn)

\* str(result) of a model response without content
ReprText == "content=''"
\* line 606: text = getattr(result, "content", None) or str(result)
LlmText(llm) == IF llm.content # <<>> THEN llm.content ELSE <<ReprText>>

\* history: the exception that left _call_tool in a step, if any
NoException == [type |-> "none", msg |-> ""]

\* lines 651-654: the step's failure boundary
AgentError(req, e) ==
    [kind |-> "agent_error", req |-> req,
     turn |-> Turn("observation", [k |-> "agent_error", e |-> e]),
     out |-> [k |-> "agent_error", e |-> e], entered |-> <<>>, raised |-> NoException]

\* FinalAnswer returning None, as the tool path does
FinalAnswerContinues(req) ==
    [kind |-> "final", req |-> req, turn |-> Turn("assistant", req.output),
     out |-> None, entered |-> <<>>, raised |-> NoException]

\* lines 618-621
FinalAnswer(req) ==
    [kind |-> "final", req |-> req, turn |-> Turn("assistant", req.output),
     out |-> req.output, entered |-> <<>>, raised |-> NoException]

\* UnknownTool returning the message instead of None
UnknownToolReturnsMessage(index, req) ==
    [kind |-> "unknown", req |-> req,
     turn |-> Turn("observation",
                   [k |-> "tool_error", requested |-> req.tool,
                    available |-> [i \in 1..Len(index) |-> index[i].name]]),
     out |-> [k |-> "tool_error", requested |-> req.tool,
              available |-> [i \in 1..Len(index) |-> index[i].name]],
     entered |-> <<>>, raised |-> NoException]

\* UnknownTool listing the natural names of the tools instead of the registry's keys
UnknownToolListsNatural(index, req) ==
    [kind |-> "unknown", req |-> req,
     turn |-> Turn("observation",
                   [k |-> "tool_error", requested |-> req.tool,
                    available |-> [i \in 1..Len(index) |-> NaturalName(index[i].fn)]]),
     out |-> None, entered |-> <<>>, raised |-> NoException]

\* lines 628-631
UnknownTool(index, req) ==
    [kind |-> "unknown", req |-> req,
     turn |-> Turn("observation",
                   [k |-> "tool_error", requested |-> req.tool,
                    available |-> [i \in 1..Len(index) |-> index[i].name]]),
     out |-> None, entered |-> <<>>, raised |-> NoException]

\* line 642: observation = f"[tool exception] {e}"
ToolException(e) == [k |-> "tool_exception", e |-> e.msg]

\* Dispatch without the tool failure boundary of lines 641-642: the exception reaches
\* the step's boundary
DispatchUnguarded(index, req, beh) ==
    LET key == req.tool.s
        fn == IndexGet(index, key)
        got == CallTool(fn, NormalizeKnown(key, req.input), beh)
        seen == [i \in 1..Len(got.entered) |->
                    [key |-> key, id |-> fn.id, shape |-> got.entered[i],
                     call |-> CallArgs(got.entered[i],
                                       Unwrap(NormalizeKnown(key, req.input)))]]
    IN  IF got.st = "ok"
        THEN [kind |-> "tool", req |-> req,
              turn |-> Turn("observation",
                            [k |-> "observation", tool |-> key, body |-> got.value]),
              out |-> None, entered |-> seen, raised |-> NoException]
        ELSE [AgentError(req, got.e.msg) EXCEPT !.kind = "tool", !.entered = seen,
                                                !.raised = got.e]

\* lines 633-645: normalization, the ladder inside the tool failure boundary, the
\* observation.  fn is the entry point _normalize_tool returned (t.__call__ for a plain
\* callable), which carries no _smart_call attribute, so line 639 is not reached.
Dispatch(index, req, beh) ==
    LET key == req.tool.s
        fn == IndexGet(index, key)
        got == CallTool(fn, NormalizeKnown(key, req.input), beh)
        observation == IF got.st = "ok" THEN got.value ELSE ToolException(got.e)
    IN  [kind |-> "tool", req |-> req,
         turn |-> Turn("observation", [k |-> "observation", tool |-> key, body |-> observation]),
         out |-> None,
         entered |-> [i \in 1..Len(got.entered) |->
                        [key |-> key, id |-> fn.id, shape |-> got.entered[i],
                         call |-> CallArgs(got.entered[i],
                                           Unwrap(NormalizeKnown(key, req.input)))]],
         raised |-> IF got.st = "ok" THEN NoException ELSE got.e]

\* str.lower on the names the model emits
Lower(name) == IF name = "Browser_Navigate" THEN "browser_navigate" ELSE name

\* RouteToolCall with a case-insensitive lookup
RouteToolCallFolded(index, req, beh) ==
    IF ~Truthy(req.tool) THEN UnknownTool(index, req)
    ELSE IF ~Hashable(req.tool) THEN AgentError(req, "unhashable type")
    ELSE IF ~InIndex(index, Lower(req.tool.s)) THEN UnknownTool(index, req)
    ELSE [Dispatch(index, [req EXCEPT !.tool = JStr(Lower(req.tool.s))], beh)
            EXCEPT !.req = req]

\* line 628: not tool_name or tool_name not in self._tool_index; the membership test
\* raises TypeError for an unhashable name
RouteToolCall(index, req, beh) ==
    IF ~Truthy(req.tool) THEN UnknownTool(index, req)
    ELSE IF ~Hashable(req.tool) THEN AgentError(req, "unhashable type")
    ELSE IF ~InIndex(index, req.tool.s) THEN UnknownTool(index, req)
    ELSE Dispatch(index, req, beh)

\* lines 603-654: one step, given what the model call does (raise, or return a response)
\* and what the operation's body does when entered
OneTurnOutcome(index, llm, beh) ==
    IF llm.raises THEN AgentError([type |-> "none"], "model call failed")
    ELSE LET req == ParseResponse(LlmText(llm)) IN
         IF req.type = "final" THEN FinalAnswer(req)
         ELSE IF req.type = "tool_call" THEN RouteToolCall(index, req, beh)
         ELSE AgentError(req, req.e)

\* line 670: last_final or "[no final answer produced within max steps]"
RunResult(last_final) == IF IsEmptyStr(last_final) THEN Sentinel ELSE last_final

\* a loop without the break of line 669
BreaksNever(out) == FALSE

\* lines 667-669: the loop ends when a step returns something other than None
Breaks(out) == out # None

\* a loop over range(self.max_steps + 1)
LoopContinuesOnceMore(n, limit) == n < limit + 1

\* line 665: for _ in range(self.max_steps): is another iteration left after n of them
LoopContinues(n, limit) == n < limit

(***************************************************************************)
(* Inputs.                                                                 *)
(***************************************************************************)
\* browser_snapshot(self, *args, **kwargs), browser_navigate(self, url), further
\* callables named browser_navigate and browser_navigate_2, and a tool object with a
\* declared name whose entry point is run(input)
Snapshot == [ToolObject(1, NoAttr, "browser_snapshot", <<>>, 0) EXCEPT !.star = TRUE]
Navigate == ToolObject(2, NoAttr, "browser_navigate", <<"url">>, 1)
NavigateAgain == ToolObject(3, NoAttr, "browser_navigate", <<"url">>, 1)
NavigateTwo == ToolObject(4, NoAttr, "browser_navigate_2", <<"url">>, 1)
Declared == ToolObject(5, "browser_navigate", "run", <<"input">>, 1)

ExecToolLists == {<<Snapshot, Navigate>>, <<Navigate, NavigateAgain, Snapshot>>}

Tasks == {"write a plan", "generate a test"}

LlmContents ==
    { <<FO, Word, FC>>, <<FO, FC>>, <<Word>>, <<>>,
      <<TO, JSnap, TC>>, <<TO, JNav, TC>>, <<TO, JNavTwo, TC>>, <<TO, JNavCase, TC>>, <<TO, JNope, TC>>,
      <<TO, JNoTool, TC>>, <<TO, JListTool, TC>>, <<TO, JBad, TC>> }
LlmOutcomes ==
    {[raises |-> TRUE, content |-> <<>>]} \cup {[raises |-> FALSE, content |-> c] : c \in LlmContents}

NoStep == [kind |-> "none"]

(***************************************************************************)
(* The executor as a state machine.                                        *)
(***************************************************************************)
Init ==
    /\ pc = "idle"
    /\ tools \in ExecToolLists
    /\ tool_index = BuildIndex(<<>>, tools)
    /\ max_steps \in 0..MaxSteps
    /\ transcript = <<>>
    /\ last_raw_output = <<>>
    /\ step = 0
    /\ result = None
    /\ runs = 0
    /\ run_start = 0
    /\ llm_calls = 0
    /\ tool_entries = 0
    /\ all_unknown = TRUE
    /\ final_seen = FALSE
    /\ kinds = <<>>
    /\ last = NoStep
    /\ pText = <<>>
    /\ pResult = None
    /\ bFn = None
    /\ bInput = None
    /\ bBeh = None
    /\ bResult = None
    /\ bTried = None
    /\ last_prompt = None
    /\ last_response = None
    /\ NewBrowserTools
    /\ plan_md = None

\* the steps a step record stands for are those of a ToolCall whose name is a string, or
\* absent, and not a key of the registry
IsUnknownName(index, req) ==
    /\ req.type = "tool_call"
    /\ req.tool.t \in {"null", "str"}
    /\ (req.tool.t = "str" => ~InIndex(index, req.tool.s))

\* run(text), lines 661-664, up to the first iteration of the loop; with max_steps = 0
\* the loop body never runs and line 670 returns
Run(task) ==
    /\ pc \in {"idle", "done"}
    /\ Len(transcript) + 1 + max_steps <= MaxTurns
    /\ transcript' = AppendTurn(transcript, Turn("user", Text(<<task>>)))
    /\ run_start' = Len(transcript) + 1
    /\ runs' = runs + 1
    /\ step' = 0
    /\ llm_calls' = 0
    /\ tool_entries' = 0
    /\ all_unknown' = TRUE
    /\ final_seen' = FALSE
    /\ kinds' = <<>>
    /\ last' = NoStep
    /\ IF LoopContinues(0, max_steps)
       THEN pc' = "loop" /\ result' = None
       ELSE pc' = "done" /\ result' = RunResult(Text(<<>>))
    /\ UNCHANGED <<tools, tool_index, max_steps, last_raw_output, pText, pResult,
                   bFn, bInput, bBeh, bResult, bTried, last_prompt, last_response, toolVars, plan_md>>

\* a step that drops the registry entry of the operation it ran
OneTurnUnregistering(llm, beh) ==
    /\ pc = "loop"
    /\ LET o == OneTurnOutcome(tool_index, llm, beh) IN
        /\ o.entered = <<>> => beh = Calm
        /\ transcript' = AppendTurn(transcript, o.turn)
        /\ last_raw_output' = IF llm.raises THEN last_raw_output ELSE LlmText(llm)
        /\ step' = step + 1
        /\ llm_calls' = llm_calls + 1
        /\ tool_entries' = tool_entries + Len(o.entered)
        /\ all_unknown' = (all_unknown /\ ~llm.raises /\ IsUnknownName(tool_index, o.req))
        /\ final_seen' = (final_seen \/ o.kind = "final")
        /\ kinds' = Append(kinds, o.kind)
        /\ last' = o
        /\ last_prompt' = [k |-> "prompt", tool_list |-> RenderToolList(tools)]
        /\ last_response' = llm
        /\ tool_index' = IF o.kind = "tool"
                         THEN SelectSeq(tool_index, LAMBDA e : e.name # o.req.tool.s)
                         ELSE tool_index
        /\ IF Breaks(o.out)
           THEN pc' = "done" /\ result' = RunResult(o.out)
           ELSE IF LoopContinues(step + 1, max_steps)
           THEN pc' = "loop" /\ result' = None
           ELSE pc' = "done" /\ result' = RunResult(Text(<<>>))
    /\ UNCHANGED <<tools, max_steps, runs, run_start, pText, pResult,
                   bFn, bInput, bBeh, bResult, bTried, toolVars, plan_md>>

\* one iteration of run's loop, lines 665-669: _one_turn, then break or go on; after
\* the last iteration, line 670
OneTurn(llm, beh) ==
    /\ pc = "loop"
    /\ LET o == OneTurnOutcome(tool_index, llm, beh) IN
        \* a step that enters no operation body does not depend on beh
        /\ o.entered = <<>> => beh = Calm
        /\ transcript' = AppendTurn(transcript, o.turn)
        /\ last_raw_output' = IF llm.raises THEN last_raw_output ELSE LlmText(llm)
        /\ step' = step + 1
        /\ llm_calls' = llm_calls + 1
        /\ tool_entries' = tool_entries + Len(o.entered)
        /\ all_unknown' = (all_unknown /\ ~llm.raises /\ IsUnknownName(tool_index, o.req))
        /\ final_seen' = (final_seen \/ o.kind = "final")
        /\ kinds' = Append(kinds, o.kind)
        /\ last' = o
        /\ last_prompt' = [k |-> "prompt", tool_list |-> RenderToolList(tools)]
        /\ last_response' = llm
        /\ IF Breaks(o.out)
           THEN pc' = "done" /\ result' = RunResult(o.out)
           ELSE IF LoopContinues(step + 1, max_steps)
           THEN pc' = "loop" /\ result' = None
           ELSE pc' = "done" /\ result' = RunResult(Text(<<>>))
    /\ UNCHANGED <<tools, tool_index, max_steps, runs, run_start, pText, pResult,
                   bFn, bInput, bBeh, bResult, bTried, toolVars, plan_md>>

Next ==
    \/ \E task \in Tasks : Run(task)
    \/ \E llm \in LlmOutcomes, beh \in Behaviours : OneTurn(llm, beh)

Spec == Init /\ [][Next]_vars

\* run is sequential code: while it is inside the loop, the next iteration is executed
\* (the model call and the operation return or raise); every iteration advances step
Iteration == step' = step + 1 /\ \E llm \in LlmOutcomes, beh \in Behaviours : OneTurn(llm, beh)

FairSpec == Spec /\ WF_step(Iteration)

(***************************************************************************)
(* The constructor's registry loop on its own: any list of tool objects.   *)
(***************************************************************************)
ToolPool == {Snapshot, Navigate, NavigateAgain, NavigateTwo, Declared}
AllToolLists == UNION {[1..n -> ToolPool] : n \in 0..MaxTools}

RegInit ==
    /\ pc = "new"
    /\ tools \in AllToolLists
    /\ tool_index = <<>>
    /\ max_steps = 0
    /\ transcript = <<>>
    /\ last_raw_output = <<>>
    /\ step = 0
    /\ result = None
    /\ runs = 0
    /\ run_start = 0
    /\ llm_calls = 0
    /\ tool_entries = 0
    /\ all_unknown = TRUE
    /\ final_seen = FALSE
    /\ kinds = <<>>
    /\ last = NoStep
    /\ pText = <<>>
    /\ pResult = None
    /\ bFn = None
    /\ bInput = None
    /\ bBeh = None
    /\ bResult = None
    /\ bTried = None
    /\ last_prompt = None
    /\ last_response = None
    /\ NewBrowserTools
    /\ plan_md = None

\* _Executor.__init__, lines 572-581
Construct ==
    /\ pc = "new"
    /\ tool_index' = BuildIndex(<<>>, tools)
    /\ pc' = "idle"
    /\ UNCHANGED <<tools, max_steps, transcript, last_raw_output, step, result, runs,
                   run_start, llm_calls, tool_entries, all_unknown, final_seen,
                   kinds, last, pText, pResult, bFn, bInput, bBeh, bResult, bTried, last_prompt, last_response, toolVars, plan_md>>

RegSpec == RegInit /\ [][Construct]_vars

(***************************************************************************)
(* The parser on its own: any string of at most MaxLen tokens.             *)
(***************************************************************************)
ParseTokens == {TO, TC, FO, FC, SO, SE, WS, NameSnap, InUrl, JSnap, JArr, JBad, Word}
ParseTexts == UNION {[1..n -> ParseTokens] : n \in 0..MaxLen}

ParseInit ==
    /\ pc = "parse"
    /\ pText \in ParseTexts
    /\ pResult = None
    /\ tools = <<>>
    /\ tool_index = <<>>
    /\ max_steps = 0
    /\ transcript = <<>>
    /\ last_raw_output = <<>>
    /\ step = 0
    /\ result = None
    /\ runs = 0
    /\ run_start = 0
    /\ llm_calls = 0
    /\ tool_entries = 0
    /\ all_unknown = TRUE
    /\ final_seen = FALSE
    /\ kinds = <<>>
    /\ last = NoStep
    /\ bFn = None
    /\ bInput = None
    /\ bBeh = None
    /\ bResult = None
    /\ bTried = None
    /\ last_prompt = None
    /\ last_response = None
    /\ NewBrowserTools
    /\ plan_md = None

\* _parse_response(text)
Parse ==
    /\ pc = "parse"
    /\ pResult' = ParseResponse(pText)
    /\ pc' = "parsed"
    /\ UNCHANGED <<pText, tools, tool_index, max_steps, transcript, last_raw_output, step,
                   result, runs, run_start, llm_calls, tool_entries, all_unknown,
                   final_seen, kinds, last, bFn, bInput, bBeh, bResult, bTried, last_prompt, last_response, toolVars, plan_md>>

ParseSpec == ParseInit /\ [][Parse]_vars

(***************************************************************************)
(* The parser on outputs assembled from whole forms: strict blocks,        *)
(* permissive tags, final-answer blocks and plain text, at most MaxParts   *)
(* of them one after the other.                                            *)
(***************************************************************************)
FormParts ==
    { <<TO, JSnap, TC>>, <<TO, JBad, TC>>, <<TO, JArr, TC>>, <<FO, Word, FC>>,
      <<SO, NameSnap, InUrl, SE>>, <<SO, NameNope, InRaw, SE>>, <<SO, NameSnap, SE>>,
      <<SO, InUrl, SE>>, <<Word>>, <<WS>> }

RECURSIVE Concat(_)
Concat(parts) == IF parts = <<>> THEN <<>> ELSE Head(parts) \o Concat(Tail(parts))

FormTexts == {Concat(parts) : parts \in UNION {[1..n -> FormParts] : n \in 0..MaxParts}}

FormsInit ==
    /\ pc = "parse"
    /\ pText \in FormTexts
    /\ pResult = None
    /\ tools = <<>>
    /\ tool_index = <<>>
    /\ max_steps = 0
    /\ transcript = <<>>
    /\ last_raw_output = <<>>
    /\ step = 0
    /\ result = None
    /\ runs = 0
    /\ run_start = 0
    /\ llm_calls = 0
    /\ tool_entries = 0
    /\ all_unknown = TRUE
    /\ final_seen = FALSE
    /\ kinds = <<>>
    /\ last = NoStep
    /\ bFn = None
    /\ bInput = None
    /\ bBeh = None
    /\ bResult = None
    /\ bTried = None
    /\ last_prompt = None
    /\ last_response = None
    /\ NewBrowserTools
    /\ plan_md = None

FormsSpec == FormsInit /\ [][Parse]_vars

(***************************************************************************)
(* The binder on its own: any callable of the pool, any decoded input.     *)
(***************************************************************************)
\* browser_navigate_back(self), planner_setup_page(self, input),
\* browser_handle_dialog(self, action), browser_verify_value(self, selector,
\* expected_value), and a callable f(text, expected_value) whose parameters share the
\* alias "value"
NavigateBack == ToolObject(6, NoAttr, "browser_navigate_back", <<>>, 0)
PlannerSetupPage == ToolObject(7, NoAttr, "planner_setup_page", <<"input">>, 1)
HandleDialog == ToolObject(8, NoAttr, "browser_handle_dialog", <<"action">>, 1)
VerifyValue == ToolObject(9, NoAttr, "browser_verify_value", <<"selector", "expected_value">>, 2)
TextValue == ToolObject(10, NoAttr, "verify_text_value", <<"text", "expected_value">>, 2)

BindOps == {NavigateBack, Navigate, Snapshot, PlannerSetupPage, HandleDialog, VerifyValue,
            TextValue}

BindKeys == {"url", "href", "input", "value"}
Leaves == {JNull, JStr("u"), JNum(5)}
\* the functions from at most n of the keys to the values
MapsOver(keys, vals, n) ==
    UNION {[ks -> vals] : ks \in {S \in SUBSET keys : Cardinality(S) <= n}}
InnerMaps == {JDict(f) : f \in MapsOver(BindKeys, Leaves, 1)}
EntryValues == Leaves \cup {JList(1)} \cup InnerMaps
Mappings == {JDict(f) : f \in MapsOver(BindKeys, EntryValues, MaxEntries)}
Scalars == {JNull, JStr("u"), JStr(""), JNum(5), JNum(0), JBool(TRUE), JBool(FALSE)}
BindInputs == Scalars \cup {JList(1)} \cup Mappings

BindInit ==
    /\ pc = "bind"
    /\ bFn \in BindOps
    /\ bInput \in BindInputs
    /\ bBeh = None
    /\ bResult = None
    /\ bTried = None
    /\ last_prompt = None
    /\ last_response = None
    /\ NewBrowserTools
    /\ plan_md = None
    /\ pText = <<>>
    /\ pResult = None
    /\ tools = <<>>
    /\ tool_index = <<>>
    /\ max_steps = 0
    /\ transcript = <<>>
    /\ last_raw_output = <<>>
    /\ step = 0
    /\ result = None
    /\ runs = 0
    /\ run_start = 0
    /\ llm_calls = 0
    /\ tool_entries = 0
    /\ all_unknown = TRUE
    /\ final_seen = FALSE
    /\ kinds = <<>>
    /\ last = NoStep

\* _extract_kwargs_for(fn, tool_input)
Bind ==
    /\ pc = "bind"
    /\ bResult' = ExtractKwargsFor(bFn, bInput)
    /\ pc' = "bound"
    /\ UNCHANGED <<bFn, bInput, bBeh, bTried, last_prompt, last_response, toolVars, plan_md, pText, pResult, tools, tool_index, max_steps,
                   transcript, last_raw_output, step, result, runs, run_start, llm_calls,
                   tool_entries, all_unknown, final_seen, kinds, last>>

BindSpec == BindInit /\ [][Bind]_vars

(***************************************************************************)
(* The invocation ladder on its own: any callable of the pool, any input,  *)
(* any behaviour of the callable's body.                                   *)
(***************************************************************************)
\* search_listDirectory(directory="."): one parameter, with a default
ListDirectory == ToolObject(11, NoAttr, "search_listDirectory", <<"directory">>, 0)

CallOps == {NavigateBack, Navigate, Snapshot, VerifyValue, ListDirectory}
CallKeys == {"url", "selector", "input", "args"}
CallValues == {JNull, JStr("u"), JDict(EmptyMap), JDict([key \in {"url"} |-> JStr("u")]),
               JDict([key \in {"url", "selector"} |-> JStr("u")])}
CallInputs ==
    Scalars \cup {JList(1)} \cup {JDict(f) : f \in MapsOver(CallKeys, CallValues, MaxEntries)}

CallInit ==
    /\ pc = "call"
    /\ bFn \in CallOps
    /\ bInput \in CallInputs
    /\ bBeh \in [Shapes -> BodyOutcomes]
    /\ bResult = None
    /\ bTried = None
    /\ last_prompt = None
    /\ last_response = None
    /\ NewBrowserTools
    /\ plan_md = None
    /\ pText = <<>>
    /\ pResult = None
    /\ tools = <<>>
    /\ tool_index = <<>>
    /\ max_steps = 0
    /\ transcript = <<>>
    /\ last_raw_output = <<>>
    /\ step = 0
    /\ result = None
    /\ runs = 0
    /\ run_start = 0
    /\ llm_calls = 0
    /\ tool_entries = 0
    /\ all_unknown = TRUE
    /\ final_seen = FALSE
    /\ kinds = <<>>
    /\ last = NoStep

\* _call_tool(fn, tool_input)
Call ==
    /\ pc = "call"
    /\ bResult' = CallTool(bFn, bInput, bBeh)
    /\ bTried' = CallTrace(bFn, bInput, bBeh)
    /\ pc' = "called"
    /\ UNCHANGED <<bFn, bInput, bBeh, last_prompt, last_response, toolVars, plan_md, pText, pResult, tools, tool_index, max_steps,
                   transcript, last_raw_output, step, result, runs, run_start, llm_calls,
                   tool_entries, all_unknown, final_seen, kinds, last>>

CallSpec == CallInit /\ [][Call]_vars

(***************************************************************************)
(* Properties of the control loop (Spec).                                  *)
(***************************************************************************)
LastTurn == transcript[Len(transcript)]
RegistryNames == [i \in 1..Len(tool_index) |-> tool_index[i].name]

\* C1: a run in which every model output parsed to a ToolCall naming an operation that
\* is not in the registry makes exactly max_steps model invocations and returns the
\* sentinel "[no final answer produced within max steps]".
C1_UnknownOnlyExhaustsBudget ==
    (pc = "done" /\ all_unknown) => (llm_calls = max_steps /\ result = Sentinel)

C1_Witness ==
    /\ pc = "done"
    /\ all_unknown
    /\ kinds = <<"unknown", "unknown">>
    /\ result = Sentinel

\* C2 (as claimed): when a step's Request is a FinalAnswer, the run appends it as an
\* assistant turn, stops, and returns the FinalAnswer's text, whatever that text is.
C2_FinalAnswerIsResult ==
    (last.kind = "final") =>
        /\ LastTurn = Turn("assistant", last.req.output)
        /\ pc = "done"
        /\ result = last.req.output

\* C3 (as claimed): a fault of the step outside the tool failure boundary is appended
\* as an observation and the loop goes on while budget remains.
C3_FaultKeepsRunning ==
    (last.kind = "agent_error") =>
        /\ LastTurn.role = "observation"
        /\ LastTurn.content.k = "agent_error"
        /\ (step < max_steps => pc = "loop")

\* C4: once a step of a run yielded a FinalAnswer, that run makes no further model
\* invocation and enters no operation; a FinalAnswer on the first turn leaves exactly
\* one model invocation.
C4_NothingAfterFinal ==
    /\ []((final_seen /\ Head(kinds) = "final") => llm_calls = 1)
    /\ [][(final_seen /\ runs' = runs) =>
            (llm_calls' = llm_calls /\ tool_entries' = tool_entries)]_vars

C4_Witness ==
    /\ final_seen
    /\ pc = "done"
    /\ llm_calls = 1
    /\ max_steps > 1

C6_ExactDispatch ==
    (last.kind # "none" /\ last.req.type = "tool_call") =>
        IF last.req.tool.t = "str" /\ InIndex(tool_index, last.req.tool.s)
        THEN \A i \in 1..Len(last.entered) :
                /\ last.entered[i].key = last.req.tool.s
                /\ last.entered[i].id = IndexGet(tool_index, last.req.tool.s).id
        ELSE last.entered = <<>>

C6_Witness ==
    /\ last.kind = "tool"
    /\ last.req.tool = JStr("browser_navigate_2")
    /\ Len(last.entered) > 0
    /\ last.entered[1].id = NavigateAgain.id

\* C7: on a fresh executor, an unknown operation followed by a FinalAnswer leaves the
\* transcript: the user task, one observation listing the registry's names, the
\* assistant turn.
C7_UnknownThenFinal ==
    (runs = 1 /\ pc = "done" /\ kinds = <<"unknown", "final">>) =>
        /\ Len(transcript) = 3
        /\ transcript[1].role = "user"
        /\ transcript[1].content \in {Text(<<task>>) : task \in Tasks}
        /\ transcript[2].role = "observation"
        /\ transcript[2].content.k = "tool_error"
        /\ transcript[2].content.available = RegistryNames
        /\ transcript[3] = Turn("assistant", last.req.output)

C7_Witness ==
    /\ runs = 1
    /\ pc = "done"
    /\ kinds = <<"unknown", "final">>
    /\ Len(tool_index) = 3
    /\ transcript[2].content.available[2] = "browser_navigate_2"

\* C8 (as claimed): the transcript a run sees starts with that run's own user turn,
\* also for a second run on the same executor.
C8_TranscriptStartsWithOwnTask ==
    (pc \in {"loop", "done"}) => run_start = 1

(***************************************************************************)
(* Properties of the registry (RegSpec).                                   *)
(***************************************************************************)
Suffixed(base, n) == base \o "_" \o ToString(n)
EarlierNames(i) == {tool_index[j].name : j \in 1..(i - 1)}

\* C9: after registering N operations the registry holds N distinct names, entry i
\* being operation i; an operation whose natural name is free keeps it, one whose
\* natural name is taken gets the name with the smallest free suffix _2, _3, ...
C9_RegistryNames ==
    (pc = "idle") =>
        /\ Len(tool_index) = Len(tools)
        /\ Cardinality(IndexNames(tool_index)) = Len(tools)
        /\ \A i \in 1..Len(tools) :
            /\ tool_index[i].fn = tools[i]
            /\ IF NaturalName(tools[i]) \notin EarlierNames(i)
               THEN tool_index[i].name = NaturalName(tools[i])
               ELSE \E n \in 2..(Len(tools) + 1) :
                    /\ tool_index[i].name = Suffixed(NaturalName(tools[i]), n)
                    /\ tool_index[i].name \notin EarlierNames(i)
                    /\ \A m \in 2..(n - 1) :
                        Suffixed(NaturalName(tools[i]), m) \in EarlierNames(i)

C9_Witness ==
    /\ pc = "idle"
    /\ tools = <<Navigate, NavigateTwo, NavigateAgain>>
    /\ tool_index[3].name = "browser_navigate_3"

(***************************************************************************)
(* Properties of the parser (ParseSpec).                                   *)
(***************************************************************************)
\* C10: _parse_response returns a tool_call Request or a final Request for every
\* string, and raises for none.
C10_ParseTotal ==
    (pc = "parsed") => pResult.type \in {"tool_call", "final"}

C10_Witness ==
    /\ pc = "parsed"
    /\ Contains(pText, TO)
    /\ Contains(pText, FO)
    /\ pResult.type = "final"
    /\ pResult.output.k = "parser_error"

\* s holds sub as a run of consecutive tokens
ContainsSeq(s, sub) ==
    \E i \in 0..(Len(s) - Len(sub)) : SubSeq(s, i + 1, i + Len(sub)) = sub

\* the conditions under which an output has each of the recognized forms
HasStrictForm(text) == Contains(text, TO) /\ Contains(text, TC)
\* a self-closing tag <tool_call ... name="..." ... />: its opening, name and closing
NamedTags(text) ==
    {tag \in (1..Len(text)) \X (1..Len(text)) \X (1..Len(text)) :
        /\ text[tag[1]] = SO
        /\ tag[1] < tag[2] /\ tag[2] < tag[3]
        /\ text[tag[2]] \in NameAttrs
        /\ text[tag[3]] = SE
        /\ \A n \in (tag[1] + 1)..(tag[3] - 1) : ~HasGt(text[n])}
HasFinalForm(text) == Contains(text, FO) /\ Contains(text, FC)
\* the payload enclosed by the strict sentinels
EnclosedPayload(text) == Strip(BeforeFirst(AfterFirst(text, TO), TC))
Decodes(text) ==
    /\ JsonLoads(EnclosedPayload(text)).ok
    /\ IsDict(JsonLoads(EnclosedPayload(text)).v)
DecodeError(text) ==
    IF JsonLoads(EnclosedPayload(text)).ok THEN "AttributeError"
    ELSE JsonLoads(EnclosedPayload(text)).e

C11_Case == pc = "parsed" /\ HasStrictForm(pText) /\ ~Decodes(pText)

\* C11 (as claimed): when the output has the strict sentinels and the enclosed payload
\* does not decode, the parser returns a FinalAnswer, whatever other forms the output
\* holds, whose text holds the decode error and the original raw output, and the run
\* ends on that turn with this text as its result.
C11_StrictFailureKeepsRawOutput ==
    C11_Case =>
        /\ pResult.type = "final"
        /\ pResult.output.k = "parser_error"
        /\ pResult.output.e = DecodeError(pText)
        /\ ContainsSeq(ParserErrorText(pResult.output), pText)
        /\ Breaks(FinalAnswer(pResult).out)
        /\ RunResult(FinalAnswer(pResult).out) = pResult.output

\* C11 (amended): as above, but the text holds the raw output without its leading and
\* trailing whitespace.
C11_StrictFailureKeepsStrippedOutput ==
    C11_Case =>
        /\ pResult.type = "final"
        /\ pResult.output.k = "parser_error"
        /\ pResult.output.e = DecodeError(pText)
        /\ ContainsSeq(ParserErrorText(pResult.output), Strip(pText))
        /\ Breaks(FinalAnswer(pResult).out)
        /\ RunResult(FinalAnswer(pResult).out) = pResult.output

C11_Witness ==
    /\ C11_Case
    /\ pText = <<FO, TO, TC, FC>>
    /\ pResult.output.k = "parser_error"
    /\ pResult.output.raw = pText

(***************************************************************************)
(* Properties of the parser on assembled outputs (FormsSpec).              *)
(***************************************************************************)
\* C12: the forms are tried in the order strict block, permissive tag, final-answer
\* block and the first that matches decides: an output with the strict form is settled
\* by its payload alone (a ToolCall when it decodes, also when a final-answer block is
\* present), one without it but with a named tag is a ToolCall for a name of a tag,
\* one with neither but a final-answer block is the FinalAnswer of that block.
C12_FirstFormWins ==
    (pc = "parsed") =>
        LET text == Strip(pText) IN
        /\ (HasStrictForm(text) /\ Decodes(text)) =>
                /\ pResult.type = "tool_call"
                /\ pResult.tool = Get(JsonLoads(EnclosedPayload(text)).v, "tool")
                /\ pResult.input = Get(JsonLoads(EnclosedPayload(text)).v, "input")
        /\ (HasStrictForm(text) /\ ~Decodes(text)) =>
                /\ pResult.type = "final"
                /\ pResult.output.k = "parser_error"
        /\ (~HasStrictForm(text) /\ NamedTags(text) # {}) =>
                /\ pResult.type = "tool_call"
                /\ pResult.tool \in {JStr(AttrValue(text[tag[2]])) : tag \in NamedTags(text)}
        /\ (~HasStrictForm(text) /\ NamedTags(text) = {} /\ HasFinalForm(text)) =>
                /\ pResult.type = "final"
                /\ pResult.output = Text(Strip(BeforeFirst(AfterFirst(text, FO), FC)))

C12_Witness ==
    /\ pc = "parsed"
    /\ pText = <<FO, Word, FC, TO, JSnap, TC>>
    /\ pResult.type = "tool_call"
    /\ pResult.tool = JStr("browser_snapshot")

\* the input_string attributes inside a tag
TagInputs(text, tag) == {n \in (tag[1] + 1)..(tag[3] - 1) : text[n] \in InputAttrs}
\* the payload of a tag, HTML-unescaped: the empty string when the tag carries none
TagPayload(text, tag) ==
    IF TagInputs(text, tag) = {} THEN ""
    ELSE HtmlUnescape(AttrValue(text[CHOOSE n \in TagInputs(text, tag) :
                                        \A o \in TagInputs(text, tag) : o <= n]))

\* C13: an output without the strict form whose one self-closing tag carries a name
\* attribute is a ToolCall for that name whatever the payload: a payload that decodes
\* is passed decoded, one that does not (or is absent) is passed as the unescaped string.
C13_PermissiveNeverRejects ==
    (pc = "parsed" /\ ~HasStrictForm(pText) /\ Cardinality(NamedTags(pText)) = 1
        /\ Cardinality({i \in 1..Len(pText) : pText[i] = SO}) = 1) =>
        LET tag == CHOOSE t \in NamedTags(pText) : TRUE
            raw == TagPayload(pText, tag)
        IN  /\ pResult.type = "tool_call"
            /\ pResult.tool = JStr(AttrValue(pText[tag[2]]))
            /\ pResult.input = IF raw \in ValidJson THEN JsonValue(raw) ELSE JStr(raw)

C13_Witness ==
    /\ pc = "parsed"
    /\ pText = <<Word, SO, NameNope, InRaw, SE, FO, Word, FC>>
    /\ pResult.tool = JStr("extract_links")
    /\ pResult.input = JStr("u")

C14_Case ==
    /\ pc = "parsed"
    /\ ~HasStrictForm(pText)
    /\ NamedTags(pText) = {}
    /\ ~HasFinalForm(pText)

\* C14 (as claimed): an output that has none of the recognized forms is returned as a
\* FinalAnswer whose text is the entire raw output, character for character.
C14_NoFormIsVerbatim ==
    C14_Case => (pResult.type = "final" /\ pResult.output = Text(pText))

\* the output passes none of the parser's three tests: both strict sentinels; a
\* "<tool_call" followed, before any '>', by a name attribute, with "/>" anywhere in the
\* output; both final-answer sentinels
C14_NoTestPasses ==
    /\ pc = "parsed"
    /\ ~HasStrictForm(pText)
    /\ ~(Contains(pText, SE) /\ \E i, j \in 1..Len(pText) :
            /\ i < j
            /\ pText[i] = SO
            /\ pText[j] \in NameAttrs
            /\ \A n \in (i + 1)..(j - 1) : ~HasGt(pText[n]))
    /\ ~HasFinalForm(pText)

\* C14 (amended): an output that passes none of the parser's three tests is returned as
\* a FinalAnswer whose text is the entire raw output without its leading and trailing
\* whitespace.
C14_NoFormIsStripped ==
    C14_NoTestPasses => (pResult.type = "final" /\ pResult.output = Text(Strip(pText)))

C14_Witness ==
    /\ C14_NoTestPasses
    /\ pText = <<WS, FO, Word, WS>>
    /\ pResult.output = Text(<<FO, Word>>)

(***************************************************************************)
(* Properties of the binder (BindSpec).                                    *)
(***************************************************************************)
EmptyResolvedCall == [args |-> <<>>, kwargs |-> EmptyMap]
OnePositional(v) == [args |-> <<v>>, kwargs |-> EmptyMap]

\* C15: for an operation whose signature declares no parameter, and every input (null,
\* scalar, mapping, list), the binder returns the empty ResolvedCall.
C15_NoParametersBindNothing ==
    (pc = "bound" /\ SigParams(bFn) = <<>>) => bResult = EmptyResolvedCall

C15_Witness ==
    /\ pc = "bound"
    /\ bFn = NavigateBack
    /\ bInput = JStr("u")
    /\ bResult = EmptyResolvedCall

\* C16 (as claimed): for every scalar input (string, number, boolean, null) and every
\* operation, the binder returns exactly one positional argument, equal to the input,
\* and no keyword argument.
C16_ScalarIsPositional ==
    (pc = "bound" /\ IsScalar(bInput)) => bResult = OnePositional(bInput)

\* C16 (amended): the same for every operation that declares at least one parameter.
C16_ScalarIsPositionalWithParameters ==
    (pc = "bound" /\ IsScalar(bInput) /\ SigParams(bFn) # <<>>) =>
        bResult = OnePositional(bInput)

C16_Witness ==
    /\ pc = "bound"
    /\ bFn = VerifyValue
    /\ bInput = JBool(FALSE)
    /\ bResult.args = <<JBool(FALSE)>>

\* the mapping the binder works on: the input with the entries of a nested "input"
\* mapping merged in
WorkingMap == MergeInput(bInput.d)
\* the keys consumed by the first n parameters, each taking its first alias, in the
\* order of the alias table, that is a key not consumed before
RECURSIVE ConsumedBy(_)
FirstFreeAlias(n) ==
    LET aliases == ParamAliases(SigParams(bFn)[n])
        free == {i \in 1..Len(aliases) :
                    aliases[i] \in DOMAIN WorkingMap /\ aliases[i] \notin ConsumedBy(n - 1)}
    IN  IF free = {} THEN {} ELSE {aliases[CHOOSE i \in free : \A j \in free : i <= j]}
ConsumedBy(n) == IF n = 0 THEN {} ELSE ConsumedBy(n - 1) \cup FirstFreeAlias(n)

\* C17 (as claimed): for a mapping input, every declared parameter with an alias that is
\* a still-unconsumed key of the mapping is bound as a keyword argument, under its
\* canonical name, to the value stored under the first such alias.
C17_AliasBindsKeyword ==
    (pc = "bound" /\ IsDict(bInput)) =>
        \A n \in 1..Len(SigParams(bFn)) : \A a \in FirstFreeAlias(n) :
            /\ bResult.args = <<>>
            /\ SigParams(bFn)[n] \in DOMAIN bResult.kwargs
            /\ bResult.kwargs[SigParams(bFn)[n]] = WorkingMap[a]

\* C18 (as claimed): for every operation and every mapping m, binding {"input": m}
\* gives the same ResolvedCall as binding m.
C18_WrappedBindsAlike ==
    (pc = "bound" /\ IsDict(bInput)) =>
        ExtractKwargsFor(bFn, JDict([key \in {"input"} |-> bInput])) = bResult

C19_Case ==
    /\ pc = "bound"
    /\ Len(SigParams(bFn)) = 1
    /\ IsDict(bInput)
    /\ Cardinality(DOMAIN bInput.d) = 1
    /\ \A key \in DOMAIN bInput.d, i \in 1..Len(ParamAliases(SigParams(bFn)[1])) :
            ParamAliases(SigParams(bFn)[1])[i] # key

\* C19 (as claimed): for an operation with exactly one parameter and a mapping with
\* exactly one entry whose key is none of the parameter's aliases, the binder returns
\* the entry's value as the single positional argument and no keyword argument.
C19_SingleEntryIsPositional ==
    C19_Case => \A key \in DOMAIN bInput.d : bResult = OnePositional(bInput.d[key])

\* C19 (amended): the same unless the entry is a non-empty mapping stored under the
\* key "input".
C19_SingleEntryIsPositionalUnlessWrapped ==
    (C19_Case /\ ~("input" \in DOMAIN bInput.d /\ Truthy(bInput.d["input"])
                   /\ IsDict(bInput.d["input"]))) =>
        \A key \in DOMAIN bInput.d : bResult = OnePositional(bInput.d[key])

C19_Witness ==
    /\ C19_Case
    /\ bFn = HandleDialog
    /\ bInput = JDict([key \in {"value"} |-> JNum(5)])
    /\ bResult = OnePositional(JNum(5))

(***************************************************************************)
(* Properties of the invocation ladder (CallSpec).                         *)
(***************************************************************************)
\* the argument the calls are made with, and the call shapes in the claimed order
CallArgument == Unwrap(bInput)
ShapeOrder ==
    IF IsDict(CallArgument) THEN <<"kwargs", "positional", "noarg">>
    ELSE <<"positional", "noarg">>
AttemptOf(i) == Attempt(bFn, ShapeOrder[i], CallArgument, bBeh[ShapeOrder[i]])
Mismatch(i) == AttemptOf(i).st = "raise" /\ AttemptOf(i).e.type = "TypeError"
\* the first attempt that raises no TypeError, the last attempt when all do
Deciding ==
    CHOOSE i \in 1..Len(ShapeOrder) :
        /\ \A j \in 1..(i - 1) : Mismatch(j)
        /\ ~Mismatch(i) \/ i = Len(ShapeOrder)
\* the shapes, among the first n of a sequence, whose call entered the body
RECURSIVE EnteredUpTo(_)
EnteredUpTo(n) ==
    IF n = 0 THEN <<>>
    ELSE IF AttemptOf(n).entered THEN Append(EnteredUpTo(n - 1), ShapeOrder[n])
    ELSE EnteredUpTo(n - 1)

StringKinds == {"text", "parser_error", "tool_error", "observation", "agent_error",
                "tool_exception"}
IsTurn(t) ==
    /\ DOMAIN t = {"role", "content"}
    /\ t.role \in Roles
    /\ t.content.k \in StringKinds

\* C22: every turn of the transcript has a role among user, assistant, observation and
\* string content; every step of the loop appends exactly one turn, an observation or
\* an assistant turn; run appends the task as one user turn; the turns already in the
\* transcript stay as they are, in their order.
C22_TranscriptAppendOnly ==
    /\ [](\A i \in 1..Len(transcript) : IsTurn(transcript[i]))
    /\ [][/\ Len(transcript') = Len(transcript) + 1
          /\ SubSeq(transcript', 1, Len(transcript)) = transcript
          /\ IF pc = "loop"
             THEN transcript'[Len(transcript')].role \in {"observation", "assistant"}
             ELSE transcript'[Len(transcript')].role = "user"]_vars

C22_Witness ==
    /\ runs = 2
    /\ Len(transcript) = 4
    /\ transcript[1].role = "user"
    /\ transcript[2].role = "assistant"
    /\ transcript[3].role = "user"
    /\ transcript[4].role = "observation"

\* C23 (as claimed): a run returns the budget-exhausted sentinel only after max_steps
\* steps none of which produced a FinalAnswer.
C23_SentinelOnlyOnExhaustion ==
    (pc = "done" /\ result = Sentinel) => (step = max_steps /\ ~final_seen)

\* C29: no step of run and no call of run changes the registry or the tool list it was
\* built from.
C29_RegistryReadOnly ==
    /\ [](tool_index = BuildIndex(<<>>, tools))
    /\ [][tool_index' = tool_index /\ tools' = tools]_vars

C29_Witness ==
    /\ pc = "done"
    /\ runs = 2
    /\ kinds = <<"tool">>
    /\ last.raised.type = "Exception"
    /\ transcript[2].content.k = "tool_error"
    /\ Len(tool_index) = 3
    /\ [i \in 1..3 |-> tool_index[i].name] =
           <<"browser_navigate", "browser_navigate_2", "browser_snapshot">>

\* C26 (as claimed): the tool list of the prompt of a step shows, for each operation,
\* a name under which the registry finds that operation, and shows every name of the
\* registry.
C26_PromptShowsRegistryNames ==
    (last_prompt # None) =>
        /\ \A i \in 1..Len(last_prompt.tool_list) :
              /\ InIndex(tool_index, last_prompt.tool_list[i])
              /\ IndexGet(tool_index, last_prompt.tool_list[i]) = tools[i]
        /\ IndexNames(tool_index) \subseteq
               {last_prompt.tool_list[i] : i \in 1..Len(last_prompt.tool_list)}

\* C24: binding a mapping, each key is consumed by at most one parameter: a bound
\* parameter holds the value of its first alias among the keys no earlier parameter of
\* the signature consumed, so a key that is an alias of two parameters reaches only the
\* earlier one; a value passed positionally is passed alone.
C24_KeyConsumedOnce ==
    (pc = "bound" /\ IsDict(bInput) /\ SigParams(bFn) # <<>>) =>
        /\ Len(bResult.args) <= 1
        /\ bResult.args # <<>> => DOMAIN bResult.kwargs = {}
        /\ \A n \in 1..Len(SigParams(bFn)) :
              SigParams(bFn)[n] \in DOMAIN bResult.kwargs =>
                 /\ FirstFreeAlias(n) # {}
                 /\ \A a \in FirstFreeAlias(n) :
                       bResult.kwargs[SigParams(bFn)[n]] = WorkingMap[a]
        /\ \A m, n \in 1..Len(SigParams(bFn)) :
              (m < n /\ FirstFreeAlias(m) # {} /\ FirstFreeAlias(n) = {}) =>
                 SigParams(bFn)[n] \notin DOMAIN bResult.kwargs

C24_Witness ==
    /\ pc = "bound"
    /\ bFn = TextValue
    /\ bInput = JDict([key \in {"value"} |-> JStr("u")])
    /\ bResult = ResolvedCall(<<>>, [p \in {"text"} |-> JStr("u")])

\* the value the ladder works on once a wrapper {"input": v} or, failing that,
\* {"args": v} has been replaced by v
Handed ==
    IF ~IsDict(bInput) THEN bInput
    ELSE IF "input" \in DOMAIN bInput.d THEN bInput.d["input"]
    ELSE IF "args" \in DOMAIN bInput.d THEN bInput.d["args"]
    ELSE bInput

\* C25 (as claimed): for a mapping given to _call_tool, the first call passes every
\* entry of the mapping as a keyword argument.
C25_FirstCallPassesAllEntries ==
    (pc = "called" /\ IsDict(bInput)) =>
        /\ bTried[1].shape = "kwargs"
        /\ bTried[1].call = ResolvedCall(<<>>, bInput.d)

\* C25 (amended): when the value left after the unwrapping of an "input" or "args"
\* wrapper is a mapping, the first call passes every entry of that mapping, and nothing
\* else, as keyword arguments; when it is no mapping, the first call passes it as the
\* one positional argument and no keyword call is made.
C25_FirstCallPassesAllUnwrappedEntries ==
    (pc = "called") =>
        IF IsDict(Handed)
        THEN /\ bTried[1].shape = "kwargs"
             /\ bTried[1].call = ResolvedCall(<<>>, Handed.d)
        ELSE /\ bTried[1].call = ResolvedCall(<<Handed>>, EmptyMap)
             /\ \A i \in 1..Len(bTried) : bTried[i].shape # "kwargs"

C25_Witness ==
    /\ pc = "called"
    /\ bFn = VerifyValue
    /\ bInput = JDict([key \in {"input", "url"} |->
                          IF key = "url" THEN JStr("u")
                          ELSE JDict([k \in {"url", "selector"} |-> JStr("u")])])
    /\ Len(bTried) = 3
    /\ bTried[1].call = ResolvedCall(<<>>, [k \in {"url", "selector"} |-> JStr("u")])
    /\ ~bTried[1].entered

(***************************************************************************)
(* The per-operation normalization on its own: any name, any input.        *)
(***************************************************************************)
NormNames == NavigateTools \cup {"browser_click"}
NormKeys == {"url", "href", "target", "page", "input"}
NormLeaves == {JNull, JStr(""), JStr("u"), JStr("v"), JNum(5)}
NormInner == {JDict(f) : f \in MapsOver({"url", "href"}, {JStr(""), JStr("u")}, MaxEntries)}
NormInputs ==
    Scalars \cup {JList(1)}
        \cup {JDict(f) : f \in MapsOver(NormKeys, NormLeaves \cup NormInner, MaxEntries)}

NormInit ==
    /\ pc = "normalize"
    /\ bFn \in NormNames
    /\ bInput \in NormInputs
    /\ bBeh = None
    /\ bResult = None
    /\ bTried = None
    /\ last_prompt = None
    /\ last_response = None
    /\ NewBrowserTools
    /\ plan_md = None
    /\ pText = <<>>
    /\ pResult = None
    /\ tools = <<>>
    /\ tool_index = <<>>
    /\ max_steps = 0
    /\ transcript = <<>>
    /\ last_raw_output = <<>>
    /\ step = 0
    /\ result = None
    /\ runs = 0
    /\ run_start = 0
    /\ llm_calls = 0
    /\ tool_entries = 0
    /\ all_unknown = TRUE
    /\ final_seen = FALSE
    /\ kinds = <<>>
    /\ last = NoStep

\* _normalize_tool_input_for_known_tools(tool_name, tool_input)
Normalize ==
    /\ pc = "normalize"
    /\ bResult' = NormalizeKnown(bFn, bInput)
    /\ pc' = "normalized"
    /\ UNCHANGED <<bFn, bInput, bBeh, bTried, last_prompt, last_response, toolVars, plan_md, pText, pResult, tools, tool_index,
                   max_steps, transcript, last_raw_output, step, result, runs, run_start,
                   llm_calls, tool_entries, all_unknown, final_seen, kinds, last>>

NormSpec == NormInit /\ [][Normalize]_vars

\* the mapping the normalization looks into: the inner mapping of {"input": {...}}
Inner ==
    IF IsDict(bInput) /\ "input" \in DOMAIN bInput.d /\ bInput.d["input"].t = "dict"
    THEN bInput.d["input"] ELSE bInput
UrlKeys == <<"url", "href", "target", "page">>
\* the positions of UrlKeys under which the mapping holds a value Python takes as true
Filled == {i \in 1..4 : IsDict(Inner) /\ UrlKeys[i] \in DOMAIN Inner.d
                          /\ Truthy(Inner.d[UrlKeys[i]])}
FirstFilled == Inner.d[UrlKeys[CHOOSE i \in Filled : \A j \in Filled : i <= j]]
OnlyUrl(v) == JDict([key \in {"url"} |-> v])

\* C27 (as claimed): for a navigate-style operation, a mapping with a non-empty value
\* under url, href, target or page (inside one {"input": {...}} level) becomes
\* {"url": value} for the first such key, a raw string s becomes {"url": s}, and any
\* other input is returned unchanged.
C27_NavigateNormalization ==
    (pc = "normalized" /\ bFn \in NavigateTools) =>
        IF Filled # {} THEN bResult = OnlyUrl(FirstFilled)
        ELSE IF bInput.t = "str" THEN bResult = OnlyUrl(bInput)
        ELSE bResult = bInput

\* C27 (amended): as above, with non-empty meaning a value Python takes as true, and
\* with any other input returned as it is after the unwrapping: the inner mapping of
\* {"input": {...}}, else the input itself.
C27_NavigateNormalizationUnwrapped ==
    (pc = "normalized" /\ bFn \in NavigateTools) =>
        IF Filled # {} THEN bResult = OnlyUrl(FirstFilled)
        ELSE IF bInput.t = "str" THEN bResult = OnlyUrl(bInput)
        ELSE bResult = Inner

C27_Witness ==
    /\ pc = "normalized"
    /\ bFn = "planner_setup_page"
    /\ bInput = JDict([key \in {"input", "url"} |->
                          IF key = "url" THEN JStr("v")
                          ELSE JDict([k \in {"url", "href"} |->
                                         IF k = "url" THEN JStr("") ELSE JStr("u")])])
    /\ bResult = OnlyUrl(JStr("u"))

(***************************************************************************)
(* The natural name on its own: any combination of the attributes read.    *)
(***************************************************************************)
\* tool objects whose attributes name, tool_name, __name__ and __qualname__ are each
\* absent, the empty string, or a name
NamedObjects ==
    {[ToolObject(12, n, d, <<"input">>, 1) EXCEPT !.tool_name = tn, !.qualname = q,
                                                 !.cls = "SearchTool"] :
        n \in {NoAttr, "", "search"}, tn \in {NoAttr, "", "search_tool"},
        d \in {NoAttr, "", "run_search"}, q \in {NoAttr, "", "SearchTool.run_search"}}

NameInit ==
    /\ pc = "name"
    /\ bFn \in NamedObjects
    /\ bInput = None
    /\ bBeh = None
    /\ bResult = None
    /\ bTried = None
    /\ last_prompt = None
    /\ last_response = None
    /\ NewBrowserTools
    /\ plan_md = None
    /\ pText = <<>>
    /\ pResult = None
    /\ tools = <<>>
    /\ tool_index = <<>>
    /\ max_steps = 0
    /\ transcript = <<>>
    /\ last_raw_output = <<>>
    /\ step = 0
    /\ result = None
    /\ runs = 0
    /\ run_start = 0
    /\ llm_calls = 0
    /\ tool_entries = 0
    /\ all_unknown = TRUE
    /\ final_seen = FALSE
    /\ kinds = <<>>
    /\ last = NoStep

\* name, _, _ = _normalize_tool(t)
Name ==
    /\ pc = "name"
    /\ bResult' = NaturalName(bFn)
    /\ pc' = "named"
    /\ UNCHANGED <<bFn, bInput, bBeh, bTried, last_prompt, last_response, toolVars, plan_md, pText, pResult, tools, tool_index,
                   max_steps, transcript, last_raw_output, step, result, runs, run_start,
                   llm_calls, tool_entries, all_unknown, final_seen, kinds, last>>

NameSpec == NameInit /\ [][Name]_vars

\* an attribute that holds a name: present and not the empty string
HoldsName(a) == a # NoAttr /\ a # ""

\* C30 (as claimed): the natural name is the declared name (name, else tool_name) when
\* the object has one, otherwise the introspected name (__name__, else __qualname__),
\* otherwise the name of its type.
C30_NaturalNameOrder ==
    (pc = "named") =>
        bResult = IF HoldsName(bFn.name) THEN bFn.name
                  ELSE IF HoldsName(bFn.tool_name) THEN bFn.tool_name
                  ELSE IF HoldsName(bFn.dunder) THEN bFn.dunder
                  ELSE IF HoldsName(bFn.qualname) THEN bFn.qualname
                  ELSE bFn.cls

(***************************************************************************)
(* The executor over operations with one parameter and with none.          *)
(***************************************************************************)
\* browser_click(self, selector)
Click == ToolObject(13, NoAttr, "browser_click", <<"selector">>, 1)

StepToolLists == {<<Click, NavigateBack, Navigate>>}
StepContents ==
    { <<FO, Word, FC>>,
      <<TO, JClickCss, TC>>, <<TO, JClickSel, TC>>, <<TO, JNavHref, TC>>, <<TO, JNav, TC>>,
      <<TO, JBackNone, TC>>, <<TO, JBackNull, TC>>, <<TO, JBackStr, TC>>, <<TO, JBackNum, TC>>,
      <<TO, JBackMap, TC>>, <<TO, JBackEmpty, TC>>, <<TO, JBackList, TC>>,
      <<TO, JBackArgs, TC>> }
StepOutcomes ==
    {[raises |-> TRUE, content |-> <<>>]} \cup {[raises |-> FALSE, content |-> c] : c \in StepContents}

StepInit ==
    /\ pc = "idle"
    /\ tools \in StepToolLists
    /\ tool_index = BuildIndex(<<>>, tools)
    /\ max_steps \in 1..MaxSteps
    /\ transcript = <<>>
    /\ last_raw_output = <<>>
    /\ step = 0
    /\ result = None
    /\ runs = 0
    /\ run_start = 0
    /\ llm_calls = 0
    /\ tool_entries = 0
    /\ all_unknown = TRUE
    /\ final_seen = FALSE
    /\ kinds = <<>>
    /\ last = NoStep
    /\ pText = <<>>
    /\ pResult = None
    /\ bFn = None
    /\ bInput = None
    /\ bBeh = None
    /\ bResult = None
    /\ bTried = None
    /\ last_prompt = None
    /\ last_response = None
    /\ NewBrowserTools
    /\ plan_md = None

StepNext ==
    \/ \E task \in Tasks : Run(task)
    \/ \E llm \in StepOutcomes, beh \in Behaviours : OneTurn(llm, beh)

StepSpec == StepInit /\ [][StepNext]_vars

\* the operation a tool step looked up, and the input the model gave it
Operation == IndexGet(tool_index, last.req.tool.s)

\* C21 (as claimed): a ToolCall naming a registered operation has its input normalized,
\* then bound to the parameters of the operation by the argument binder, and the
\* operation is entered with the arguments the binder resolved: an input under an
\* alias key arrives under the canonical parameter.
C21_BinderFeedsLadder ==
    (last.kind = "tool" /\ last.entered # <<>>) =>
        last.entered[1].call =
            ExtractKwargsFor(Operation, NormalizeKnown(last.req.tool.s, last.req.input))

\* C28: a ToolCall to a registered operation that takes no argument enters the
\* operation, every time with no argument at all, whatever the input is; the step
\* appends one observation for the operation, holding the result when the operation
\* returned one, and the loop is not ended by the step.
C28_NoArgumentOperationIsCalledBare ==
    (last.kind = "tool" /\ SigParams(Operation) = <<>>) =>
        /\ last.entered # <<>>
        /\ \A i \in 1..Len(last.entered) :
              /\ last.entered[i].id = Operation.id
              /\ last.entered[i].call = ResolvedCall(<<>>, EmptyMap)
        /\ LastTurn.role = "observation"
        /\ LastTurn.content.k = "observation"
        /\ LastTurn.content.tool = last.req.tool.s
        /\ last.raised = NoException =>
              LastTurn.content.body = [k |-> "result", of |-> Operation.id]
        /\ last.out = None

C28_Witness ==
    /\ last.kind = "tool"
    /\ last.req.tool = JStr("browser_navigate_back")
    /\ last.req.input = UrlArg
    /\ Len(last.entered) = 1
    /\ last.entered[1].shape = "noarg"
    /\ LastTurn.content.body = [k |-> "result", of |-> NavigateBack.id]

(***************************************************************************)
(* The model call of a step.                                               *)
(***************************************************************************)
\* C31 (as claimed): when the response of the model call carries no content, or empty
\* content, the raw output of the step is the empty string.
C31_NoContentIsEmptyOutput ==
    (last_response # None /\ ~last_response.raises /\ last_response.content = <<>>) =>
        last_raw_output = <<>>

(***************************************************************************)
(* The loop: entries of an operation, shape of the transcript, termination.*)
(***************************************************************************)
\* C38 (as claimed): for one ToolCall the body of the operation is entered at most
\* once.
C38_BodyEnteredOnce ==
    (last.kind = "tool") => Len(last.entered) <= 1

\* C39: during the first run of an executor the transcript is the user turn holding
\* the task, then observation turns, then at most one assistant turn, which is the last
\* turn and ends the run; the turns after the user turn are as many as the steps
\* executed.
C39_TranscriptShape ==
    (runs = 1) =>
        /\ transcript[1].role = "user"
        /\ \E task \in Tasks : transcript[1].content = Text(<<task>>)
        /\ \A i \in 2..Len(transcript) :
              \/ transcript[i].role = "observation"
              \/ transcript[i].role = "assistant" /\ i = Len(transcript) /\ pc = "done"
        /\ Len(transcript) - 1 = step

C39_Witness ==
    /\ runs = 1
    /\ pc = "done"
    /\ step = 2
    /\ Len(transcript) = 3
    /\ transcript[2].role = "observation"
    /\ transcript[3].role = "assistant"

\* the steps of the current run that dispatched a ToolCall to an operation
Dispatches == Cardinality({i \in 1..Len(kinds) : kinds[i] = "tool"})

\* C37: whatever the model call and the operations do, raising included, a run makes at
\* most max_steps model invocations and at most max_steps dispatches; a raised
\* exception ends up as an observation of the step instead of leaving run; and a run
\* that entered its loop returns.
C37_RunTerminates ==
    /\ [](llm_calls <= max_steps /\ Dispatches <= max_steps /\ step <= max_steps)
    /\ []((last.kind = "agent_error" \/ (last.kind = "tool" /\ last.raised # NoException)) =>
            /\ LastTurn.role = "observation"
            /\ LastTurn.content.k \in {"agent_error", "observation"}
            /\ pc \in {"loop", "done"})
    /\ [](pc = "done" => result # None)
    /\ (pc = "loop") ~> (pc = "done")

C37_Witness ==
    /\ pc = "done"
    /\ max_steps = 2
    /\ kinds = <<"tool", "agent_error">>
    /\ llm_calls = 2
    /\ transcript[2].content.body.k = "tool_exception"
    /\ last_response.raises

(***************************************************************************)
(* The browser session of browser_tools.py (PlaywrightBrowserTools) and    *)
(* the write tools the planner run of main.py offers to the model.         *)
(* What the page does (goto succeeds or raises, the snapshot is a DOM, is  *)
(* blank or raises, the file system accepts the write or raises) is an     *)
(* input of each call.                                                     *)
(***************************************************************************)
\* logging operations are callable while action_log holds fewer than MaxLog entries
MaxLog == 2
\* a snapshot is counted while _snapshots is below MaxSnapshots
MaxSnapshots == 2

Urls == {"u", "v"}
Selectors == {"#go"}

\* lines 36-41: _log_action(action_description, code_snippet); the texts of the model's
\* URLs and selectors do not contain "page.goto"
LogEntry(description, code) == [description |-> description, code |-> code]
PlannerSetupEntry(url) == LogEntry(<<"Planner setup at", url>>, <<"page.goto", url>>)
NavigateEntry(url) == LogEntry(<<"Navigate to", url>>, <<"page.goto", url>>)
ClickEntry(selector) == LogEntry(<<"Click on", selector>>, <<"page.locator.click", selector>>)

\* line 523: "page.goto" in entry
HasGoto(entry) == entry.code[1] = "page.goto"

NotReadyFirst == Text(<<"Error: Call planner_setup_page or generator_setup_page first.">>)
NotReady == Text(<<"Error: Not ready. Call planner_setup_page/generator_setup_page first.">>)
NoSnapshot == Text(<<"Error: Take at least one browser_snapshot before writing files.">>)

\* lines 26-27
RequireReady == IF ready THEN None ELSE NotReadyFirst

\* a gate that looks at _ready only
RequireSnapshotReadyOnly == IF ~ready THEN NotReady ELSE None

\* lines 29-34
RequireSnapshot ==
    IF ~ready THEN NotReady
    ELSE IF snapshots < 1 THEN NoSnapshot
    ELSE None

\* lines 60-76 of planner_setup_page: the URL the input resolves to, JNull when none
SetupUrl(input) ==
    LET inner == input.d["input"].d
        inp == IF HasKey(input, "input") /\ IsDict(input.d["input"])
               THEN JDict([key \in (DOMAIN input.d \ {"input"}) \cup DOMAIN inner |->
                             IF key \in DOMAIN inner THEN inner[key] ELSE input.d[key]])
               ELSE input
        url == IF IsDict(inp)
               THEN OrChain(<<Get(inp, "url"), Get(inp, "target"), Get(inp, "page"), Get(inp, "href")>>)
               ELSE inp
    IN  IF Truthy(url) /\ IsStr(url) THEN url ELSE JNull

SetupInputs ==
    {JStr("u"), JStr(""), JNull, JDict(EmptyMap),
     JDict([key \in {"url"} |-> JStr("u")]),
     JDict([key \in {"href"} |-> JStr("v")]),
     JDict([key \in {"input"} |-> JDict([key2 \in {"url"} |-> JStr("v")])])}

\* what a call of a tool did: the operation, how it was reached ("method": the bound
\* method itself, "planner": the tool the planner run registers), what it returned,
\* whether it wrote a file, the history before the call and, for a test that was built,
\* the action log it was built from
ToolCalled(op, via, returned, wrote, built) ==
    [op |-> op, via |-> via, returned |-> returned, wrote |-> wrote, before |-> thist,
     built |-> built]

NoTest == [k |-> "None"]
\* lines 522-524: the setup code of the test file, and the first entry of the log it is
\* built from
Test(log) ==
    [k |-> "test",
     setup_code |-> IF log # <<>> /\ HasGoto(log[1]) THEN log[1].code ELSE <<>>,
     first |-> log[1]]

Ok(text) == Text(<<text>>)
Error(text) == Text(<<"Error", text>>)
IsError(returned) == returned.body[1] = "Error" \/ returned \in {NotReadyFirst, NotReady, NoSnapshot}

\* the variables of the executor and of the pure-function specifications
SessionFrame ==
    UNCHANGED <<pc, tools, tool_index, max_steps, transcript, last_raw_output, step, result,
                runs, run_start, llm_calls, tool_entries, all_unknown, final_seen, kinds,
                last, pText, pResult, bFn, bInput, bBeh, bResult, bTried, last_prompt,
                last_response, plan_md>>

\* lines 51-94
SetupPlannerPage(input, goto_ok) ==
    LET url == SetupUrl(input)
    IN  /\ pc = "session"
        /\ IF url = JNull
           THEN /\ action_log' = <<>>
                /\ thist' = [thist EXCEPT !.entry = None]
                /\ tcall' = ToolCalled("planner_setup_page", "method",
                                       Error("planner_setup_page requires a URL"), FALSE, NoTest)
                /\ UNCHANGED <<ready, snapshots>>
           ELSE IF goto_ok
           THEN /\ action_log' = <<PlannerSetupEntry(url.s)>>
                /\ ready' = TRUE
                /\ snapshots' = 0
                /\ thist' = [succeeded |-> TRUE, snapshots |-> 0,
                             entry |-> PlannerSetupEntry(url.s)]
                /\ tcall' = ToolCalled("planner_setup_page", "method",
                                       Ok("Planner setup complete."), FALSE, NoTest)
           ELSE /\ action_log' = <<>>
                /\ thist' = [thist EXCEPT !.entry = None]
                /\ tcall' = ToolCalled("planner_setup_page", "method",
                                       Error("during planner setup"), FALSE, NoTest)
                /\ UNCHANGED <<ready, snapshots>>
        /\ UNCHANGED files
        /\ SessionFrame

\* lines 96-110
SetupGeneratorPage(url, goto_ok) ==
    /\ pc = "session"
    /\ IF goto_ok
       THEN /\ action_log' = <<NavigateEntry(url)>>
            /\ ready' = TRUE
            /\ snapshots' = 0
            /\ thist' = [succeeded |-> TRUE, snapshots |-> 0, entry |-> NavigateEntry(url)]
            /\ tcall' = ToolCalled("generator_setup_page", "method",
                                   Ok("Successfully navigated"), FALSE, NoTest)
       ELSE /\ action_log' = <<>>
            /\ thist' = [thist EXCEPT !.entry = None]
            /\ tcall' = ToolCalled("generator_setup_page", "method",
                                   Error("navigating"), FALSE, NoTest)
            /\ UNCHANGED <<ready, snapshots>>
    /\ UNCHANGED files
    /\ SessionFrame

\* lines 112-131, called with a URL string
BrowserNavigate(url, goto_ok) ==
    /\ pc = "session"
    /\ Len(action_log) < MaxLog
    /\ IF RequireReady # None
       THEN /\ tcall' = ToolCalled("browser_navigate", "method", RequireReady, FALSE, NoTest)
            /\ UNCHANGED action_log
       ELSE IF goto_ok
       THEN /\ action_log' = Append(action_log, NavigateEntry(url))
            /\ tcall' = ToolCalled("browser_navigate", "method",
                                   Ok("Successfully navigated"), FALSE, NoTest)
       ELSE /\ tcall' = ToolCalled("browser_navigate", "method", Error("navigating"),
                                   FALSE, NoTest)
            /\ UNCHANGED action_log
    /\ UNCHANGED <<ready, snapshots, files, thist>>
    /\ SessionFrame

\* lines 143-152: the entry is logged before the click is tried
BrowserClick(selector, click_ok) ==
    /\ pc = "session"
    /\ Len(action_log) < MaxLog
    /\ action_log' = Append(action_log, ClickEntry(selector))
    /\ tcall' = ToolCalled("browser_click", "method",
                           IF click_ok THEN Ok("Successfully clicked") ELSE Error("clicking"),
                           FALSE, NoTest)
    /\ UNCHANGED <<ready, snapshots, files, thist>>
    /\ SessionFrame

\* lines 182-193; dom is what get_simplified_dom(self.page.content()) does: "dom" (a
\* non-blank snapshot), "blank", or "raise"
BrowserSnapshot(dom) ==
    /\ pc = "session"
    /\ IF dom = "dom"
       THEN /\ snapshots < MaxSnapshots
            /\ snapshots' = snapshots + 1
            /\ thist' = [thist EXCEPT !.snapshots = @ + 1]
            /\ tcall' = ToolCalled("browser_snapshot", "method", Ok("snapshot"), FALSE, NoTest)
       ELSE /\ tcall' = ToolCalled("browser_snapshot", "method",
                                   IF dom = "blank" THEN Ok("Page is blank")
                                   ELSE Error("getting page snapshot"), FALSE, NoTest)
            /\ UNCHANGED <<snapshots, thist>>
    /\ UNCHANGED <<ready, action_log, files>>
    /\ SessionFrame

BrowserToolNames ==
    {"planner_setup_page", "generator_setup_page", "browser_navigate", "browser_click",
     "browser_snapshot", "planner_write_markdown", "generator_write_test"}

\* main.py lines 239-244
WriteProtected ==
    {"planner_write_markdown", "edit_createFile", "generator_write_test",
     "wrapped__planner_write_markdown"}

\* main.py lines 256-263: wrap_tool is applied to the tools of
\* browser_tool_instance.get_tools(); the file tools are registered as they are
PlannerWraps(fn_name) == fn_name \in BrowserToolNames

\* main.py lines 238-250: what the planner's tool returns before fn is called, None when
\* it calls fn; via is "planner" for the tool the planner registers, "method" for fn
Gate(fn_name, via) ==
    IF via = "planner" /\ PlannerWraps(fn_name) /\ fn_name \in WriteProtected
    THEN RequireSnapshot ELSE None

Vias == {"method", "planner"}

\* browser_tools.py lines 422-455; path_given: the argument holds a file path;
\* fs_ok: makedirs, open and write succeed
PlannerWriteMarkdown(via, path_given, fs_ok) ==
    LET msg == IF Gate("planner_write_markdown", via) # None
               THEN Gate("planner_write_markdown", via) ELSE RequireSnapshot
    IN  /\ pc = "session"
        /\ IF msg # None
           THEN /\ tcall' = ToolCalled("planner_write_markdown", via, msg, FALSE, NoTest)
                /\ UNCHANGED files
           ELSE IF ~path_given
           THEN /\ tcall' = ToolCalled("planner_write_markdown", via,
                                       Error("planner_write_markdown requires a file_path."),
                                       FALSE, NoTest)
                /\ UNCHANGED files
           ELSE IF ~fs_ok
           THEN /\ tcall' = ToolCalled("planner_write_markdown", via,
                                       Error("writing markdown"), FALSE, NoTest)
                /\ UNCHANGED files
           ELSE /\ files' = [files EXCEPT ![PlanPath] = [k |-> "markdown"]]
                /\ tcall' = ToolCalled("planner_write_markdown", via, Ok("WROTE"), TRUE, NoTest)
        /\ UNCHANGED <<ready, snapshots, action_log, thist>>
        /\ SessionFrame

\* browser_tools.py lines 483-555
GeneratorWriteTest(via, fs_ok) ==
    LET msg == IF Gate("generator_write_test", via) # None
               THEN Gate("generator_write_test", via) ELSE RequireSnapshot
    IN  /\ pc = "session"
        /\ IF msg # None
           THEN /\ tcall' = ToolCalled("generator_write_test", via, msg, FALSE, NoTest)
                /\ UNCHANGED files
           ELSE IF action_log = <<>>
           THEN /\ tcall' = ToolCalled("generator_write_test", via,
                                       Error("Cannot write test. The action log is empty."),
                                       FALSE, NoTest)
                /\ UNCHANGED files
           ELSE IF ~fs_ok
           THEN /\ tcall' = ToolCalled("generator_write_test", via, Error("writing file"),
                                       FALSE, Test(action_log))
                /\ UNCHANGED files
           ELSE /\ files' = [files EXCEPT ![TestPath] = Test(action_log)]
                /\ tcall' = ToolCalled("generator_write_test", via,
                                       Ok("Successfully wrote test file"), TRUE,
                                       Test(action_log))
        /\ UNCHANGED <<ready, snapshots, action_log, thist>>
        /\ SessionFrame

\* file_system_tools.py lines 65-84, as the planner run registers it
EditCreateFile(fs_ok) ==
    LET msg == Gate("edit_createFile", "planner")
    IN  /\ pc = "session"
        /\ IF msg # None
           THEN /\ tcall' = ToolCalled("edit_createFile", "planner", msg, FALSE, NoTest)
                /\ UNCHANGED files
           ELSE IF ~fs_ok
           THEN /\ tcall' = ToolCalled("edit_createFile", "planner", Error("writing to file"),
                                       FALSE, NoTest)
                /\ UNCHANGED files
           ELSE /\ files' = [files EXCEPT ![NotePath] = [k |-> "text"]]
                /\ tcall' = ToolCalled("edit_createFile", "planner",
                                       Ok("Successfully wrote"), TRUE, NoTest)
        /\ UNCHANGED <<ready, snapshots, action_log, thist>>
        /\ SessionFrame

\* PlaywrightBrowserTools(page), lines 14-24, before any tool is called
ToolsInit ==
    /\ pc = "session"
    /\ bFn = None
    /\ bInput = None
    /\ bBeh = None
    /\ bResult = None
    /\ bTried = None
    /\ last_prompt = None
    /\ last_response = None
    /\ NewBrowserTools
    /\ plan_md = None
    /\ pText = <<>>
    /\ pResult = None
    /\ tools = <<>>
    /\ tool_index = <<>>
    /\ max_steps = 0
    /\ transcript = <<>>
    /\ last_raw_output = <<>>
    /\ step = 0
    /\ result = None
    /\ runs = 0
    /\ run_start = 0
    /\ llm_calls = 0
    /\ tool_entries = 0
    /\ all_unknown = TRUE
    /\ final_seen = FALSE
    /\ kinds = <<>>
    /\ last = NoStep

ToolsNext ==
    \/ \E input \in SetupInputs, goto_ok \in BOOLEAN : SetupPlannerPage(input, goto_ok)
    \/ \E url \in Urls, goto_ok \in BOOLEAN : SetupGeneratorPage(url, goto_ok)
    \/ \E url \in Urls, goto_ok \in BOOLEAN : BrowserNavigate(url, goto_ok)
    \/ \E selector \in Selectors, click_ok \in BOOLEAN : BrowserClick(selector, click_ok)
    \/ \E dom \in {"dom", "blank", "raise"} : BrowserSnapshot(dom)
    \/ \E via \in Vias, path_given \in BOOLEAN, fs_ok \in BOOLEAN :
          PlannerWriteMarkdown(via, path_given, fs_ok)
    \/ \E via \in Vias, fs_ok \in BOOLEAN : GeneratorWriteTest(via, fs_ok)
    \/ \E fs_ok \in BOOLEAN : EditCreateFile(fs_ok)

ToolsSpec == ToolsInit /\ [][ToolsNext]_vars

\* a setup call has succeeded and a snapshot has succeeded since the most recent one
SnapshotTaken(h) == h.succeeded /\ h.snapshots >= 1

\* C32: planner_write_markdown and generator_write_test write a file only when a setup
\* call has succeeded and at least one browser_snapshot has succeeded since the most
\* recent successful setup; called in any other state they return an error string and
\* write nothing.
C32_WritesNeedSetupAndSnapshot ==
    /\ (files[PlanPath] # None \/ files[TestPath] # None) => thist.succeeded
    /\ (tcall # None /\ tcall.op \in {"planner_write_markdown", "generator_write_test"}) =>
          /\ tcall.wrote => SnapshotTaken(tcall.before)
          /\ ~SnapshotTaken(tcall.before) => IsError(tcall.returned) /\ ~tcall.wrote

C32_Witness ==
    /\ tcall # None
    /\ tcall.op = "generator_write_test"
    /\ tcall.via = "method"
    /\ tcall.wrote
    /\ files[TestPath] # None
    /\ files[PlanPath] # None
    /\ thist.snapshots = 1

\* C34 (as claimed): whenever generator_write_test passes its gates and builds a test,
\* the first entry of the action log is the setup navigation logged by the most recent
\* setup call.
C34_FirstEntryIsSetupNavigation ==
    (tcall # None /\ tcall.op = "generator_write_test" /\ tcall.built # NoTest) =>
        tcall.built.first = tcall.before.entry

\* C33 (as claimed): in the planner run, planner_write_markdown, edit_createFile and
\* generator_write_test, called before a setup has succeeded and a snapshot was taken,
\* return the gate's error message and do not write.
C33_PlannerWritesAreProtected ==
    (/\ tcall # None
     /\ tcall.via = "planner"
     /\ tcall.op \in {"planner_write_markdown", "edit_createFile", "generator_write_test"}
     /\ ~SnapshotTaken(tcall.before)) =>
        /\ tcall.returned \in {NotReady, NoSnapshot}
        /\ ~tcall.wrote

(***************************************************************************)
(* The executor of the planner run: main.py registers the browser tools    *)
(* wrapped by wrap_tool.                                                    *)
(***************************************************************************)
\* main.py lines 223-254: the function wrap_tool returns, _wrapped(*args, **kwargs) with
\* __name__ = f"wrapped__{fn_name}"
WrapTool(id, fn_name) ==
    [ToolObject(id, NoAttr, "wrapped__" \o fn_name, <<>>, 0) EXCEPT !.star = TRUE]

\* main.py lines 256-259, for four of the tools of get_tools()
PlannerToolLists ==
    {<<WrapTool(21, "planner_setup_page"), WrapTool(22, "browser_navigate"),
       WrapTool(23, "browser_snapshot"), WrapTool(24, "planner_write_markdown")>>}

\* the names the instructions tell the model to use (agent.py lines 427-440)
InstructedNames == {"planner_setup_page", "browser_navigate", "browser_snapshot"}

PlannerContents ==
    { <<FO, Word, FC>>, <<TO, JSetup, TC>>, <<TO, JSetupWrapped, TC>>, <<TO, JNav, TC>>,
      <<TO, JNavHref, TC>>, <<TO, JSnap, TC>>, <<TO, JWrite, TC>>, <<TO, JWriteEmpty, TC>>,
      <<BeginPlan, Heading, WS, EndPlan>>, <<BeginPlan, WS, EndPlan>>, <<Heading, Word>> }
PlannerOutcomes ==
    {[raises |-> TRUE, content |-> <<>>]} \cup
    {[raises |-> FALSE, content |-> c] : c \in PlannerContents}

\* the URL of the environment variable TARGET_URL
TargetUrl == JStr("t")

\* main.py lines 182-190
SmartCall(tool_name, input_obj) ==
    IF /\ tool_name \in {"planner_setup_page", "browser_navigate"}
       /\ (~IsDict(input_obj) \/ "url" \notin DOMAIN input_obj.d)
       /\ Truthy(TargetUrl)
    THEN JDict([key \in {"url"} |-> TargetUrl])
    ELSE input_obj

\* create_agent_executor(all_tools, PLANNER_SYSTEM_PROMPT), main.py line 289
PlannerInit ==
    /\ pc = "idle"
    /\ tools \in PlannerToolLists
    /\ tool_index = BuildIndex(<<>>, tools)
    /\ max_steps \in 1..MaxSteps
    /\ transcript = <<>>
    /\ last_raw_output = <<>>
    /\ step = 0
    /\ result = None
    /\ runs = 0
    /\ run_start = 0
    /\ llm_calls = 0
    /\ tool_entries = 0
    /\ all_unknown = TRUE
    /\ final_seen = FALSE
    /\ kinds = <<>>
    /\ last = NoStep
    /\ pText = <<>>
    /\ pResult = None
    /\ bFn = None
    /\ bInput = None
    /\ bBeh = None
    /\ bResult = None
    /\ bTried = None
    /\ last_prompt = None
    /\ last_response = None
    /\ NewBrowserTools
    /\ plan_md = None

\* main.py lines 18-36; the regular expression takes the first BEGIN marker and the
\* first END marker behind it; the heading rule needs "# " at the start of a line, and
\* the model's texts hold no line break
ExtractPlanMd(toks) ==
    LET rest == AfterFirst(toks, BeginPlan)
    IN  IF Contains(toks, BeginPlan) /\ Contains(rest, EndPlan)
        THEN Text(Strip(BeforeFirst(rest, EndPlan)))
        ELSE IF toks # <<>> /\ toks[1] = Heading THEN Text(Strip(toks))
        ELSE None

\* not plan_md or not plan_md.strip()
NoPlan(text) == text = None \/ Strip(text.body) = <<>>

PlanWriters ==
    {"planner_write_markdown", "wrapped__planner_write_markdown", "edit_createFile",
     "generator_write_test"}

\* main.py lines 313-325: the turns of the transcript that name a write tool under the
\* key "tool" and hold a non-blank string under "input" / "content"
WriteEvents(tr) ==
    {i \in 1..Len(tr) :
        /\ "tool" \in DOMAIN tr[i]
        /\ tr[i].tool \in PlanWriters
        /\ "input" \in DOMAIN tr[i]
        /\ IsDict(tr[i].input)
        /\ IsStr(Get(tr[i].input, "content"))
        /\ Get(tr[i].input, "content").s # ""}

\* main.py lines 332-338: "<tool_call", "<observation" or "<final_answer" in the plan
HasToolTags(text) == \E i \in 1..Len(text.body) : text.body[i] \in {TO, SO, FO}

Sanitized(raw) == [source |-> "sanitized", body |-> Text(<<"sanitize_to_markdown">> \o raw)]

\* main.py lines 311-338: the plan body of the post-processing
PlanBody(raw, tr) ==
    LET extracted == ExtractPlanMd(raw)
        first == CHOOSE i \in WriteEvents(tr) : \A j \in WriteEvents(tr) : i <= j
        chosen == IF ~NoPlan(extracted) THEN [source |-> "raw", body |-> extracted]
                  ELSE IF WriteEvents(tr) # {}
                  THEN [source |-> "transcript",
                        body |-> Text(<<Get(tr[first].input, "content").s>>)]
                  ELSE Sanitized(raw)
    IN  IF HasToolTags(chosen.body) THEN Sanitized(raw) ELSE chosen

\* main.py lines 296-347, after agent_executor.invoke returned
PostProcess ==
    /\ pc = "done"
    /\ plan_md' = PlanBody(last_raw_output, transcript)
    /\ pc' = "saved"
    /\ UNCHANGED <<tools, tool_index, max_steps, transcript, last_raw_output, step, result,
                   runs, run_start, llm_calls, tool_entries, all_unknown, final_seen, kinds,
                   last, pText, pResult, bFn, bInput, bBeh, bResult, bTried, last_prompt,
                   last_response, toolVars>>

PlannerNext ==
    \/ \E task \in Tasks : Run(task)
    \/ \E llm \in PlannerOutcomes, beh \in Behaviours : OneTurn(llm, beh)
    \/ PostProcess

PlannerSpec == PlannerInit /\ [][PlannerNext]_vars

\* C35 (as claimed): in the planner run, a ToolCall naming a browser operation by the
\* name the instructions use is dispatched to the operation, never answered with an
\* unknown-tool observation, and the operation is entered with the input normalized
\* for that operation and, where the URL is missing, filled in with TARGET_URL.
C35_InstructedNamesAreRegistered ==
    (/\ last.kind \in {"tool", "unknown"}
     /\ IsStr(last.req.tool)
     /\ last.req.tool.s \in InstructedNames) =>
        /\ last.kind = "tool"
        /\ last.entered # <<>> =>
              last.entered[1].call =
                  CallArgs(last.entered[1].shape,
                           Unwrap(SmartCall(last.req.tool.s,
                                            NormalizeKnown(last.req.tool.s, last.req.input))))

\* C36 (as claimed): when the last raw model output yields no plan body and the step
\* that produced it called a write tool with non-empty content, the post-processing
\* takes the plan body from that content; the sanitized fallback is used only when no
\* write-tool call of the run has non-empty content.
C36_PlanFromWriteCall ==
    (/\ pc = "saved"
     /\ NoPlan(ExtractPlanMd(last_raw_output))
     /\ last.kind = "tool"
     /\ last.req.tool.s \in PlanWriters
     /\ IsDict(last.req.input)
     /\ IsStr(Get(last.req.input, "content"))
     /\ Get(last.req.input, "content").s # "") =>
        plan_md = [source |-> "transcript",
                   body |-> Text(<<Get(last.req.input, "content").s>>)]

====
